---------------------------- MODULE Spec2Model ----------------------------
(***************************************************************************)
(* A model of finl_unicode: the grapheme cluster machine and its two       *)
(* drivers (src/src/grapheme_clusters.rs), the category predicates         *)
(* (src/src/categories.rs) and the table builders' byte assignments and    *)
(* page loops (src/build.rs, src/generate-sources/src/main.rs).            *)
(***************************************************************************)
EXTENDS Integers, Sequences, FiniteSets, TLC

(***************************************************************************)
(* Bounds of the model.                                                    *)
(***************************************************************************)
\* Longest input text, in scalar values.
MaxLen == 3

(***************************************************************************)
(* Scalar values.  A text is a sequence of scalar values (code points).    *)
(***************************************************************************)
CR == 13
LF == 10

\* One representative scalar value per Grapheme_Cluster_Break class, plus
\* '\r' and '\n', which the machine compares by value:
\*   U+0009 Control, U+0065 'e' Other, U+0301 Extend, U+0903 SpacingMark,
\*   U+200D ZWJ, U+0600 Prepend, U+1F600 Extended_Pictographic,
\*   U+1F1E6 Regional_Indicator, U+1100 L, U+1160 V, U+11A8 T, U+AC00 LV,
\*   U+AC01 LVT.
Alphabet ==
    {CR, LF, 9, 101, 769, 2307, 8205, 1536, 128512, 127462,
     4352, 4448, 4520, 44032, 44033}

\* The lines of GraphemeBreakProperty.txt that mention a scalar value of the
\* alphabet: the property name the file gives it ("" when it has no line).
GraphemeBreakProperty(c) ==
    CASE c = CR     -> "CR"
      [] c = LF     -> "LF"
      [] c = 9      -> "Control"
      [] c = 769    -> "Extend"
      [] c = 2307   -> "SpacingMark"
      [] c = 8205   -> "ZWJ"
      [] c = 1536   -> "Prepend"
      [] c = 127462 -> "Regional_Indicator"
      [] c = 4352   -> "L"
      [] c = 4448   -> "V"
      [] c = 4520   -> "T"
      [] c = 44032  -> "LV"
      [] c = 44033  -> "LVT"
      [] OTHER      -> ""

\* The lines of emoji-data.txt: whether c lies in an Extended_Pictographic range.
EmojiData(c) == IF c = 128512 THEN "Extended_Pictographic" ELSE ""

\* char::len_utf8: the bytes a scalar value takes in a str.
len_utf8(c) ==
    IF c < 128 THEN 1 ELSE IF c < 2048 THEN 2 ELSE IF c < 65536 THEN 3 ELSE 4

(***************************************************************************)
(* GraphemeProperty: the property codes.                                   *)
(***************************************************************************)
OTHER_PROPERTY     == 0
EXTEND             == 1
SPACING_MARK       == 2
ZWJ                == 3
CONTROL            == 4
PREPEND            == 5
EXTENDED_GRAPHEME  == 6
REGIONAL_INDICATOR == 7
HANGUL_L           == 12
HANGUL_V           == 8
HANGUL_T           == 9
HANGUL_LV          == 13
HANGUL_LVT         == 14

\* u8 & u8
RECURSIVE BitAnd(_, _)
BitAnd(a, b) ==
    IF a = 0 \/ b = 0 THEN 0
    ELSE (IF a % 2 = 1 /\ b % 2 = 1 THEN 1 ELSE 0) + 2 * BitAnd(a \div 2, b \div 2)

(***************************************************************************)
(* build.rs: the grapheme property table.                                  *)
(***************************************************************************)
encode_property(property) ==
    CASE property = "Prepend"            -> 5
      [] property = "CR"                 -> 4
      [] property = "LF"                 -> 4
      [] property = "Control"            -> 4
      [] property = "Extend"             -> 1
      [] property = "SpacingMark"        -> 2
      [] property = "L"                  -> 12
      [] property = "V"                  -> 8
      [] property = "T"                  -> 9
      [] property = "LV"                 -> 13
      [] property = "LVT"                -> 14
      [] property = "ZWJ"                -> 3
      [] property = "Extended_Grapheme"  -> 6
      [] property = "Regional_Indicator" -> 7
      [] OTHER                           -> 0

\* raw_grapheme_properties[c] after both passes: 0 unless a line of the
\* property file covers c, then overwritten by 0x06 for Extended_Pictographic.
raw_grapheme_properties(c) ==
    IF EmojiData(c) = "Extended_Pictographic" THEN 6
    ELSE IF GraphemeBreakProperty(c) = "" THEN 0
    ELSE encode_property(GraphemeBreakProperty(c))

\* The top-level entry written for a page: Code(v) when the page holds one
\* value, Page(n) otherwise.  The side array is addressed here by the page
\* itself; GP_PAGES below holds the page's 256 raw values.
GP_TABLE(page) ==
    LET values_seen == {raw_grapheme_properties(page * 256 + i) : i \in 0..255}
    IN  IF Cardinality(values_seen) = 1
        THEN [tag |-> "Code", code |-> CHOOSE v \in values_seen : TRUE]
        ELSE [tag |-> "Page", page |-> page]

GP_PAGES(page, index) == raw_grapheme_properties(page * 256 + index)

\* Either::get_code
get_code_gp(either, index) ==
    IF either.tag = "Code" THEN either.code ELSE GP_PAGES(either.page, index)

\* The table as compiled in: looked up once per scalar value of the alphabet.
GP_LOOKUP == [c \in Alphabet |-> get_code_gp(GP_TABLE(c \div 256), c % 256)]

get_property(c) == GP_LOOKUP[c]

\* Mutant: the "property != 0" test forgotten.
is_continuation_any_low(property) == BitAnd(property, 12) = 0

is_continuation(property) == property # 0 /\ BitAnd(property, 12) = 0

(***************************************************************************)
(* ClusterMachine.  A call returns the new state and the Break decision.   *)
(***************************************************************************)
ClusterMachineState ==
    {"Start", "Precore", "CcsBase", "CrLf", "HangulSyllableL", "HangulSyllableV",
     "HangulSyllableT", "CcsExtend", "Flag", "Emoji", "EmojiExtend", "EmojiZWJ",
     "Other"}

Break == {"None", "Before", "After"}

\* What a call leaves: the machine's state, the Break returned, and in
\* dropped the Break of a first_character call whose value the caller did
\* not use ("NoCall" when there was no such call).
Ret(state, brk) == [state |-> state, brk |-> brk, dropped |-> "NoCall"]

\* "self.first_character(c); brk": the state that call leaves, its Break
\* dropped.
Dropping(inner, brk) ==
    [state |-> inner.state, brk |-> brk, dropped |-> inner.brk]

\* Mutant: no Control test, so a control character starts an ordinary cluster.
first_character_no_control(c) ==
    IF c = CR THEN Ret("CrLf", "None")
    ELSE LET property == get_property(c) IN
      CASE property = PREPEND            -> Ret("Precore", "None")
        [] property = EXTEND             -> Ret("CcsExtend", "None")
        [] property = SPACING_MARK       -> Ret("CcsExtend", "None")
        [] property = HANGUL_L           -> Ret("HangulSyllableL", "None")
        [] property = HANGUL_V           -> Ret("HangulSyllableV", "None")
        [] property = HANGUL_T           -> Ret("HangulSyllableT", "None")
        [] property = HANGUL_LV          -> Ret("HangulSyllableV", "None")
        [] property = HANGUL_LVT         -> Ret("HangulSyllableT", "None")
        [] property = EXTENDED_GRAPHEME  -> Ret("Emoji", "None")
        [] property = REGIONAL_INDICATOR -> Ret("Flag", "None")
        [] OTHER                         -> Ret("Other", "None")

\* Mutant: a first control character answers Before instead of After.
first_character_before(c) ==
    IF c = CR THEN Ret("CrLf", "None")
    ELSE LET property == get_property(c) IN
      IF property = CONTROL THEN Ret("Start", "Before")
      ELSE CASE property = PREPEND            -> Ret("Precore", "None")
             [] property = EXTEND             -> Ret("CcsExtend", "None")
             [] property = SPACING_MARK       -> Ret("CcsExtend", "None")
             [] property = HANGUL_L           -> Ret("HangulSyllableL", "None")
             [] property = HANGUL_V           -> Ret("HangulSyllableV", "None")
             [] property = HANGUL_T           -> Ret("HangulSyllableT", "None")
             [] property = HANGUL_LV          -> Ret("HangulSyllableV", "None")
             [] property = HANGUL_LVT         -> Ret("HangulSyllableT", "None")
             [] property = EXTENDED_GRAPHEME  -> Ret("Emoji", "None")
             [] property = REGIONAL_INDICATOR -> Ret("Flag", "None")
             [] OTHER                         -> Ret("Other", "None")

\* Mutant: the ZWJ arm that is commented out in the source, restored.
first_character_zwj_after(c) ==
    IF c = CR THEN Ret("CrLf", "None")
    ELSE LET property == get_property(c) IN
      IF property = CONTROL THEN Ret("Start", "After")
      ELSE CASE property = PREPEND            -> Ret("Precore", "None")
             [] property = EXTEND             -> Ret("CcsExtend", "None")
             [] property = SPACING_MARK       -> Ret("CcsExtend", "None")
             [] property = HANGUL_L           -> Ret("HangulSyllableL", "None")
             [] property = HANGUL_V           -> Ret("HangulSyllableV", "None")
             [] property = HANGUL_T           -> Ret("HangulSyllableT", "None")
             [] property = HANGUL_LV          -> Ret("HangulSyllableV", "None")
             [] property = HANGUL_LVT         -> Ret("HangulSyllableT", "None")
             [] property = ZWJ                -> Ret("Start", "After")
             [] property = EXTENDED_GRAPHEME  -> Ret("Emoji", "None")
             [] property = REGIONAL_INDICATOR -> Ret("Flag", "None")
             [] OTHER                         -> Ret("Other", "None")

first_character(c) ==
    IF c = CR THEN Ret("CrLf", "None")
    ELSE LET property == get_property(c) IN
      IF property = CONTROL THEN Ret("Start", "After")
      ELSE CASE property = PREPEND            -> Ret("Precore", "None")
             [] property = EXTEND             -> Ret("CcsExtend", "None")
             [] property = SPACING_MARK       -> Ret("CcsExtend", "None")
             [] property = HANGUL_L           -> Ret("HangulSyllableL", "None")
             [] property = HANGUL_V           -> Ret("HangulSyllableV", "None")
             [] property = HANGUL_T           -> Ret("HangulSyllableT", "None")
             [] property = HANGUL_LV          -> Ret("HangulSyllableV", "None")
             [] property = HANGUL_LVT         -> Ret("HangulSyllableT", "None")
             [] property = EXTENDED_GRAPHEME  -> Ret("Emoji", "None")
             [] property = REGIONAL_INDICATOR -> Ret("Flag", "None")
             [] OTHER                         -> Ret("Other", "None")

\* "self.first_character(c); Break::Before": the state first_character leaves,
\* its return value dropped.
redispatch(c) == Dropping(first_character(c), "Before")

\* Mutant: no exception for '\n' in state CrLf.
control_rule_no_crlf(state, c) ==
    IF c = CR THEN Ret("CrLf", "Before") ELSE Ret("Start", "Before")

\* Mutant: '\r' resets the state to Start like any other control character.
control_rule_cr_start(state, c) ==
    IF state = "CrLf" /\ c = LF THEN Ret("Start", "After")
    ELSE Ret("Start", "Before")

\* Mutant: Before returned with the state left as it was.
control_rule_keep(state, c) ==
    IF state = "CrLf" /\ c = LF THEN Ret("Start", "After")
    ELSE Ret(state, "Before")

\* find_cluster, lines 141-153: the lookahead has property Control.
control_rule(state, c) ==
    IF state = "CrLf" /\ c = LF THEN Ret("Start", "After")
    ELSE IF c = CR THEN Ret("CrLf", "Before")
    ELSE Ret("Start", "Before")

\* Mutant: LV left out of the V arm.
hangul_syllable_l_no_lv(property, c) ==
    CASE property = HANGUL_L -> Ret("HangulSyllableL", "None")
      [] property = HANGUL_V -> Ret("HangulSyllableV", "None")
      [] property = HANGUL_LVT -> Ret("HangulSyllableT", "None")
      [] property \in {EXTEND, SPACING_MARK, ZWJ} -> Ret("CcsBase", "None")
      [] OTHER -> Ret(first_character(c).state, "Before")

\* Mutant: T continues a syllable that has only its leading consonant.
hangul_syllable_l_with_t(property, c) ==
    CASE property = HANGUL_L -> Ret("HangulSyllableL", "None")
      [] property \in {HANGUL_V, HANGUL_LV} -> Ret("HangulSyllableV", "None")
      [] property \in {HANGUL_T, HANGUL_LVT} -> Ret("HangulSyllableT", "None")
      [] property \in {EXTEND, SPACING_MARK, ZWJ} -> Ret("CcsBase", "None")
      [] OTHER -> Ret(first_character(c).state, "Before")

hangul_syllable_l(property, c) ==
    CASE property = HANGUL_L -> Ret("HangulSyllableL", "None")
      [] property \in {HANGUL_V, HANGUL_LV} -> Ret("HangulSyllableV", "None")
      [] property = HANGUL_LVT -> Ret("HangulSyllableT", "None")
      [] property \in {EXTEND, SPACING_MARK, ZWJ} -> Ret("CcsBase", "None")
      [] OTHER -> redispatch(c)

\* Mutant: no arm for Extend, SpacingMark and ZWJ.
hangul_syllable_v_no_mark(property, c) ==
    CASE property = HANGUL_V -> Ret("HangulSyllableV", "None")
      [] property = HANGUL_T -> Ret("HangulSyllableT", "None")
      [] OTHER -> Ret(first_character(c).state, "Before")

\* Mutant: LV and LVT continue a syllable that already has its vowel.
hangul_syllable_v_with_lv(property, c) ==
    CASE property \in {HANGUL_V, HANGUL_LV} -> Ret("HangulSyllableV", "None")
      [] property \in {HANGUL_T, HANGUL_LVT} -> Ret("HangulSyllableT", "None")
      [] property \in {EXTEND, SPACING_MARK, ZWJ} -> Ret("CcsBase", "None")
      [] OTHER -> Ret(first_character(c).state, "Before")

hangul_syllable_v(property, c) ==
    CASE property = HANGUL_V -> Ret("HangulSyllableV", "None")
      [] property = HANGUL_T -> Ret("HangulSyllableT", "None")
      [] property \in {EXTEND, SPACING_MARK, ZWJ} -> Ret("CcsBase", "None")
      [] OTHER -> redispatch(c)

\* Mutant: LVT continues a syllable that already has a trailing consonant.
hangul_syllable_t_with_lvt(property, c) ==
    CASE property \in {HANGUL_T, HANGUL_LVT} -> Ret("HangulSyllableT", "None")
      [] property \in {EXTEND, SPACING_MARK, ZWJ} -> Ret("CcsBase", "None")
      [] OTHER -> Ret(first_character(c).state, "Before")

\* Mutant: a T after a T ends the cluster.
hangul_syllable_t_no_t(property, c) ==
    CASE property \in {EXTEND, SPACING_MARK, ZWJ} -> Ret("CcsBase", "None")
      [] OTHER -> redispatch(c)

hangul_syllable_t(property, c) ==
    CASE property = HANGUL_T -> Ret("HangulSyllableT", "None")
      [] property \in {EXTEND, SPACING_MARK, ZWJ} -> Ret("CcsBase", "None")
      [] OTHER -> redispatch(c)

\* Mutant: the machine is reset to Start when the cluster ends.
ccs_extend_reset(property) ==
    IF property \in {EXTEND, SPACING_MARK, ZWJ}
    THEN Ret("CcsExtend", "None")
    ELSE Ret("Start", "Before")

ccs_extend(property) ==
    IF property \in {EXTEND, SPACING_MARK, ZWJ}
    THEN Ret("CcsExtend", "None")
    ELSE Ret("CcsExtend", "Before")

\* Mutant: a second Regional_Indicator is not joined.
flag_no_pair(property, c) ==
    CASE property \in {EXTEND, SPACING_MARK, ZWJ} -> Ret("CcsExtend", "None")
      [] OTHER -> Ret(first_character(c).state, "Before")

\* Mutant: the state stays Flag after a second Regional_Indicator, so a whole
\* run of them is absorbed.
flag_absorbs_run(property, c) ==
    CASE property = REGIONAL_INDICATOR -> Ret("Flag", "None")
      [] property \in {EXTEND, SPACING_MARK, ZWJ} -> Ret("CcsExtend", "None")
      [] OTHER -> Ret(first_character(c).state, "Before")

\* Mutant: the default arm returns Before without calling first_character,
\* so the Start assigned on entry stays.
flag_left_in_start(property, c) ==
    CASE property = REGIONAL_INDICATOR -> Ret("Other", "None")
      [] property \in {EXTEND, SPACING_MARK, ZWJ} -> Ret("CcsExtend", "None")
      [] OTHER -> Ret("Start", "Before")

flag(property, c) ==
    CASE property = REGIONAL_INDICATOR -> Ret("Other", "None")
      [] property \in {EXTEND, SPACING_MARK, ZWJ} -> Ret("CcsExtend", "None")
      [] OTHER -> redispatch(c)

\* Mutant: ZWJ handled like Extend, the state EmojiZWJ never entered.
emoji_zwj_as_extend(property, c) ==
    CASE property \in {EXTEND, SPACING_MARK, ZWJ} -> Ret("Emoji", "None")
      [] OTHER -> Ret(first_character(c).state, "Before")

emoji(property, c) ==
    CASE property = ZWJ -> Ret("EmojiZWJ", "None")
      [] property \in {EXTEND, SPACING_MARK} -> Ret("Emoji", "None")
      [] OTHER -> redispatch(c)

emoji_zwj(property) ==
    IF property = EXTENDED_GRAPHEME
    THEN Ret("Emoji", "None")
    ELSE Ret("EmojiZWJ", "Before")

\* Mutant: the Precore arm re-dispatches like the default arm.
precore_before(c) == Ret(first_character(c).state, "Before")

\* "self.first_character(c); Break::None": the state first_character leaves,
\* and None whatever it returned.
precore(c) == Dropping(first_character(c), "None")

\* The match's last arm: CcsBase, EmojiExtend and Other.
generic(state, property, c) ==
    IF is_continuation(property) THEN Ret(state, "None") ELSE redispatch(c)

\* Mutant: Control lookaheads are taken out before the match in state CrLf
\* only.
find_cluster_no_intercept(state, c) ==
    IF state = "Start" THEN first_character(c)
    ELSE LET property == get_property(c) IN
      IF property = CONTROL /\ state = "CrLf" THEN control_rule(state, c)
      ELSE CASE state = "Precore" -> precore(c)
             [] state = "HangulSyllableL" -> hangul_syllable_l(property, c)
             [] state = "HangulSyllableV" -> hangul_syllable_v(property, c)
             [] state = "HangulSyllableT" -> hangul_syllable_t(property, c)
             [] state = "CcsExtend" -> ccs_extend(property)
             [] state = "Flag" -> flag(property, c)
             [] state = "Emoji" -> emoji(property, c)
             [] state = "EmojiZWJ" -> emoji_zwj(property)
             [] OTHER -> generic(state, property, c)

find_cluster(state, c) ==
    IF state = "Start" THEN first_character(c)
    ELSE LET property == get_property(c) IN
      IF property = CONTROL THEN control_rule(state, c)
      ELSE CASE state = "Precore" -> precore(c)
             [] state = "HangulSyllableL" -> hangul_syllable_l(property, c)
             [] state = "HangulSyllableV" -> hangul_syllable_v(property, c)
             [] state = "HangulSyllableT" -> hangul_syllable_t(property, c)
             [] state = "CcsExtend" -> ccs_extend(property)
             [] state = "Flag" -> flag(property, c)
             [] state = "Emoji" -> emoji(property, c)
             [] state = "EmojiZWJ" -> emoji_zwj(property)
             [] state = "CrLf" -> Ret("CrLf", "Before")
             [] OTHER -> generic(state, property, c)

(***************************************************************************)
(* Texts and byte offsets.                                                 *)
(***************************************************************************)
RECURSIVE SeqsUpTo(_)
SeqsUpTo(n) ==
    IF n = 0 THEN {<<>>}
    ELSE LET shorter == SeqsUpTo(n - 1)
         IN  shorter \cup {Append(s, c) : s \in {t \in shorter : Len(t) = n - 1},
                                          c \in Alphabet}

Texts == SeqsUpTo(MaxLen)

\* CharIndices: the byte offset of the i-th scalar value of inp (i = Len + 1
\* gives the length of the str in bytes).
RECURSIVE byte_offset(_, _)
byte_offset(inp, i) ==
    IF i <= 1 THEN 0 ELSE byte_offset(inp, i - 1) + len_utf8(inp[i - 1])

byte_len(inp) == byte_offset(inp, Len(inp) + 1)

\* &input[start..end]: the scalar values whose offsets lie in start..end-1
\* (off is the offset of the i-th scalar value).
RECURSIVE slice_from(_, _, _, _, _)
slice_from(inp, i, off, start, end) ==
    IF i > Len(inp) \/ off >= end THEN <<>>
    ELSE LET rest == slice_from(inp, i + 1, off + len_utf8(inp[i]), start, end)
         IN  IF start <= off THEN <<inp[i]>> \o rest ELSE rest

slice(inp, start, end) == slice_from(inp, 1, 0, start, end)

(***************************************************************************)
(* The state.                                                              *)
(***************************************************************************)
VARIABLES
    input,      \* Graphemes.input, and the str the caller's cursor walks
    iter,       \* Graphemes.iter: index of the scalar value peek() shows
    ret,        \* what the last call of Graphemes::next returned
    yielded,    \* every Some(&str) Graphemes::next returned, as byte ranges
    cursor,     \* the caller's Peekable<CharIndices>: index peek() shows
    cret,       \* what the last call of next_cluster returned
    owned,      \* every Some(String) next_cluster returned
    fed,        \* Graphemes::next: the index of every char given find_cluster
    cfed,       \* next_cluster: the index of every char given find_cluster
    label,      \* UnicodeData.txt: the category field of a scalar value
    code,       \* get_code(c): the byte the category table holds for it
    pred,       \* the CharacterCategories method last called on it
    answer,     \* what that method returned
    input2,     \* a second Graphemes: its input
    iter2,      \* a second Graphemes: its iter
    ret2,       \* what the last call of next on the second Graphemes returned
    yielded2,   \* every Some(&str) the second Graphemes returned
    mprev,      \* ClusterMachine.state when find_cluster was last called
    mchar,      \* the char find_cluster was last called with
    mbrk,       \* the Break that call returned
    mstate,     \* ClusterMachine.state
    mdropped,   \* the Break of a first_character call that call dropped
    breaks,     \* the Breaks one machine returned, fed a text char by char
    raw,        \* the builder's raw array, one byte per scalar value
    table,      \* the top-level array the builder emitted
    pages,      \* the array of pages the builder emitted
    lookup,     \* the last lookup in the emitted table: scalar value and byte
    file,       \* build.rs: the data file whose lines are being read
    line,       \* the line read last
    range_start,\* build_character_tables: range_start
    categories, \* build_character_tables: raw_categories, the array
    properties, \* build_grapheme_break_property: raw_grapheme_properties
    mentioned,  \* per scalar value, what the lines read so far said of it
    outcome     \* "Ok" while the build runs, "Err" or "panic" once it failed

vars == <<input, iter, ret, yielded, cursor, cret, owned, fed, cfed, label,
          code, pred,
          answer, input2, iter2, ret2, yielded2, mprev, mchar, mbrk, mstate, mdropped,
          breaks,
          raw, table, pages, lookup, file, line, range_start, categories,
          properties, mentioned, outcome>>
segVars == <<input, iter, ret, yielded, cursor, cret, owned, fed, cfed>>
catVars == <<label, code, pred, answer>>
pairVars == <<input2, iter2, ret2, yielded2>>
machVars == <<mprev, mchar, mbrk, mstate, mdropped, breaks>>
tabVars == <<raw, table, pages, lookup>>
lineVars ==
    <<file, line, range_start, categories, properties, mentioned, outcome>>

NoCall == [kind |-> "NoCall"]
None == [kind |-> "None"]
SomeStr(start, end) == [kind |-> "Some", start |-> start, end |-> end]
SomeString(rv) == [kind |-> "Some", rv |-> rv]

(***************************************************************************)
(* Graphemes::next                                                         *)
(***************************************************************************)
\* The loop of Graphemes::next: peek at index i with the machine in state m.
\* Gives the byte offset the returned slice ends at and the index the
\* iterator is left at.
\* Also gives fed, the indices of the scalar values passed to find_cluster.
Fed(i, out) == [out EXCEPT !.fed = <<i>> \o @]

\* Mutant: the After arm slices up to the offset of the consumed scalar value
\* instead of peeking again.
RECURSIVE graphemes_loop_stale(_, _, _)
graphemes_loop_stale(inp, i, m) ==
    IF i > Len(inp) THEN [end |-> byte_len(inp), iter |-> i, fed |-> <<>>]
    ELSE LET r == find_cluster(m, inp[i]) IN
      CASE r.brk = "None"   -> Fed(i, graphemes_loop_stale(inp, i + 1, r.state))
        [] r.brk = "Before" ->
              [end |-> byte_offset(inp, i), iter |-> i, fed |-> <<i>>]
        [] r.brk = "After"  ->
              [end |-> byte_offset(inp, i), iter |-> i + 1, fed |-> <<i>>]

\* Mutant: the After arm leaves the scalar value in the iterator.
RECURSIVE graphemes_loop_peek_after(_, _, _)
graphemes_loop_peek_after(inp, i, m) ==
    IF i > Len(inp) THEN [end |-> byte_len(inp), iter |-> i, fed |-> <<>>]
    ELSE LET r == find_cluster(m, inp[i]) IN
      CASE r.brk = "None"   ->
              Fed(i, graphemes_loop_peek_after(inp, i + 1, r.state))
        [] r.brk = "Before" ->
              [end |-> byte_offset(inp, i), iter |-> i, fed |-> <<i>>]
        [] r.brk = "After"  ->
              [end |-> IF i + 1 <= Len(inp) THEN byte_offset(inp, i + 1)
                                          ELSE byte_len(inp),
               iter |-> i, fed |-> <<i>>]

RECURSIVE graphemes_loop(_, _, _)
graphemes_loop(inp, i, m) ==
    IF i > Len(inp) THEN [end |-> byte_len(inp), iter |-> i, fed |-> <<>>]
    ELSE LET r == find_cluster(m, inp[i]) IN
      CASE r.brk = "None"   -> Fed(i, graphemes_loop(inp, i + 1, r.state))
        [] r.brk = "Before" ->
              [end |-> byte_offset(inp, i), iter |-> i, fed |-> <<i>>]
        [] r.brk = "After"  ->
              [end |-> IF i + 1 <= Len(inp) THEN byte_offset(inp, i + 1)
                                          ELSE byte_len(inp),
               iter |-> i + 1, fed |-> <<i>>]

GraphemesNext ==
    /\ IF iter <= Len(input)
       THEN LET start == byte_offset(input, iter)
                r == graphemes_loop(input, iter, "Start")
            IN  /\ iter' = r.iter
                /\ ret' = SomeStr(start, r.end)
                /\ yielded' = Append(yielded, [start |-> start, end |-> r.end])
                /\ fed' = fed \o r.fed
       ELSE /\ ret' = None
            /\ UNCHANGED <<iter, yielded, fed>>
    /\ UNCHANGED <<input, cursor, cret, owned, cfed>>
    /\ UNCHANGED <<catVars, pairVars, machVars, tabVars, lineVars>>

(***************************************************************************)
(* GraphemeCluster::next_cluster for Peekable<CharIndices>                 *)
(***************************************************************************)
\* Mutant: the After arm consumes the scalar value without pushing it.
RECURSIVE next_cluster_loop_no_push(_, _, _, _)
next_cluster_loop_no_push(inp, i, m, rv) ==
    IF i > Len(inp) THEN [rv |-> rv, cursor |-> i, fed |-> <<>>]
    ELSE LET ch == inp[i]
             r == find_cluster(m, ch)
         IN
      CASE r.brk = "None"   ->
              Fed(i, next_cluster_loop_no_push(inp, i + 1, r.state,
                                               Append(rv, ch)))
        [] r.brk = "Before" -> [rv |-> rv, cursor |-> i, fed |-> <<i>>]
        [] r.brk = "After"  -> [rv |-> rv, cursor |-> i + 1, fed |-> <<i>>]

\* Mutant: the Before arm consumes the scalar value it peeked.
RECURSIVE next_cluster_loop_eat(_, _, _, _)
next_cluster_loop_eat(inp, i, m, rv) ==
    IF i > Len(inp) THEN [rv |-> rv, cursor |-> i, fed |-> <<>>]
    ELSE LET ch == inp[i]
             r == find_cluster(m, ch)
         IN
      CASE r.brk = "None"   ->
              Fed(i, next_cluster_loop_eat(inp, i + 1, r.state,
                                           Append(rv, ch)))
        [] r.brk = "Before" -> [rv |-> rv, cursor |-> i + 1, fed |-> <<i>>]
        [] r.brk = "After"  ->
              [rv |-> Append(rv, ch), cursor |-> i + 1, fed |-> <<i>>]

RECURSIVE next_cluster_loop(_, _, _, _)
next_cluster_loop(inp, i, m, rv) ==
    IF i > Len(inp) THEN [rv |-> rv, cursor |-> i, fed |-> <<>>]
    ELSE LET ch == inp[i]
             r == find_cluster(m, ch)
         IN
      CASE r.brk = "None"   ->
              Fed(i, next_cluster_loop(inp, i + 1, r.state, Append(rv, ch)))
        [] r.brk = "Before" -> [rv |-> rv, cursor |-> i, fed |-> <<i>>]
        [] r.brk = "After"  ->
              [rv |-> Append(rv, ch), cursor |-> i + 1, fed |-> <<i>>]

NextCluster ==
    /\ IF cursor <= Len(input)
       THEN LET r == next_cluster_loop(input, cursor, "Start", <<>>)
            IN  /\ cursor' = r.cursor
                /\ cret' = SomeString(r.rv)
                /\ owned' = Append(owned, r.rv)
                /\ cfed' = cfed \o r.fed
       ELSE /\ cret' = None
            /\ UNCHANGED <<cursor, owned, cfed>>
    /\ UNCHANGED <<input, iter, ret, yielded, fed>>
    /\ UNCHANGED <<catVars, pairVars, machVars, tabVars, lineVars>>

(***************************************************************************)
(* Specification of the segmenter: Graphemes::new(input) and               *)
(* input.char_indices().peekable(), then any calls of the two.             *)
(***************************************************************************)
IdleCat ==
    /\ label = ""
    /\ code = 0
    /\ pred = "NoCall"
    /\ answer = FALSE

IdleSeg ==
    /\ input = <<>>
    /\ iter = 1
    /\ ret = NoCall
    /\ yielded = <<>>
    /\ cursor = 1
    /\ cret = NoCall
    /\ owned = <<>>
    /\ fed = <<>>
    /\ cfed = <<>>

IdlePair ==
    /\ input2 = <<>>
    /\ iter2 = 1
    /\ ret2 = NoCall
    /\ yielded2 = <<>>

IdleMach ==
    /\ mprev = "Start"
    /\ mchar = 0
    /\ mbrk = "NoCall"
    /\ mstate = "Start"
    /\ mdropped = "NoCall"
    /\ breaks = <<>>

IdleTab ==
    /\ raw = <<>>
    /\ table = <<>>
    /\ pages = <<>>
    /\ lookup = NoCall

IdleLines ==
    /\ file = ""
    /\ line = NoCall
    /\ range_start = 0
    /\ categories = <<>>
    /\ properties = <<>>
    /\ mentioned = <<>>
    /\ outcome = "Ok"

Init ==
    /\ input \in Texts
    /\ iter = 1
    /\ ret = NoCall
    /\ yielded = <<>>
    /\ cursor = 1
    /\ cret = NoCall
    /\ owned = <<>>
    /\ fed = <<>>
    /\ cfed = <<>>
    /\ IdleCat
    /\ IdlePair
    /\ IdleMach
    /\ IdleTab
    /\ IdleLines

Next == GraphemesNext \/ NextCluster

Spec == Init /\ [][Next]_vars

(***************************************************************************)
(* Specification of the segmenter over longer texts of few classes:        *)
(* regional indicators, a letter, an Extend and a Prepend scalar value.    *)
(***************************************************************************)
MaxRun == 5

RunAlphabet == {127462, 101, 769, 1536}

RunTexts == UNION {[1 .. n -> RunAlphabet] : n \in 0 .. MaxRun}

InitRuns ==
    /\ input \in RunTexts
    /\ iter = 1
    /\ ret = NoCall
    /\ yielded = <<>>
    /\ cursor = 1
    /\ cret = NoCall
    /\ owned = <<>>
    /\ fed = <<>>
    /\ cfed = <<>>
    /\ IdleCat
    /\ IdlePair
    /\ IdleMach
    /\ IdleTab
    /\ IdleLines

SpecRuns == InitRuns /\ [][Next]_vars

(***************************************************************************)
(* Specification of the segmenter over texts long enough to hold an emoji, *)
(* a mark, a ZWJ and a second emoji: an Extended_Pictographic, a ZWJ, an   *)
(* Extend, a SpacingMark, a letter, a Hangul L and a regional indicator.   *)
(***************************************************************************)
MaxJoin == 4

JoinAlphabet == {128512, 8205, 769, 2307, 101, 4352, 127462}

JoinTexts == UNION {[1 .. n -> JoinAlphabet] : n \in 0 .. MaxJoin}

InitJoin ==
    /\ input \in JoinTexts
    /\ iter = 1
    /\ ret = NoCall
    /\ yielded = <<>>
    /\ cursor = 1
    /\ cret = NoCall
    /\ owned = <<>>
    /\ fed = <<>>
    /\ cfed = <<>>
    /\ IdleCat
    /\ IdlePair
    /\ IdleMach
    /\ IdleTab
    /\ IdleLines

SpecJoin == InitJoin /\ [][Next]_vars

(***************************************************************************)
(* Specification of one ClusterMachine: ClusterMachine::new(), then        *)
(* find_cluster called with any scalar values, and new() again at any      *)
(* time, as the drivers do at the start of every cluster.                  *)
(***************************************************************************)
New ==
    /\ mbrk # "NoCall"
    /\ mprev' = "Start"
    /\ mchar' = 0
    /\ mbrk' = "NoCall"
    /\ mstate' = "Start"
    /\ mdropped' = "NoCall"
    /\ UNCHANGED breaks
    /\ UNCHANGED <<segVars, catVars, pairVars, tabVars, lineVars>>

FindCluster ==
    /\ \E c \in Alphabet :
          LET r == find_cluster(mstate, c)
          IN  /\ mprev' = mstate
              /\ mchar' = c
              /\ mbrk' = r.brk
              /\ mstate' = r.state
              /\ mdropped' = r.dropped
    /\ UNCHANGED breaks
    /\ UNCHANGED <<segVars, catVars, pairVars, tabVars, lineVars>>

InitMachine ==
    /\ IdleMach
    /\ IdleSeg
    /\ IdleCat
    /\ IdlePair
    /\ IdleTab
    /\ IdleLines

NextMachine == New \/ FindCluster

SpecMachine == InitMachine /\ [][NextMachine]_vars

(***************************************************************************)
(* Specification of two Graphemes, over the same text or over two texts,   *)
(* with their calls of next interleaved in any order.                      *)
(***************************************************************************)
MaxLenPair == 2

\* Texts the second Graphemes may run over besides the first one's text:
\* the text of the test can_get_clusters ('f' written as 'e'), three
\* regional indicators, and the empty text.
OtherTexts ==
    {<<CR, LF, 101, 769, 101>>, <<127462, 127462, 127462>>, <<>>}

\* Mutant: the second Graphemes walks the first one's iter.
GraphemesNext2_shared ==
    /\ IF iter <= Len(input2)
       THEN LET start == byte_offset(input2, iter)
                r == graphemes_loop(input2, iter, "Start")
            IN  /\ iter' = r.iter
                /\ ret2' = SomeStr(start, r.end)
                /\ yielded2' = Append(yielded2, [start |-> start, end |-> r.end])
       ELSE /\ ret2' = None
            /\ UNCHANGED <<iter, yielded2>>
    /\ UNCHANGED <<input2, iter2>>
    /\ UNCHANGED <<input, ret, yielded, cursor, cret, owned, fed, cfed>>
    /\ UNCHANGED <<catVars, machVars, tabVars, lineVars>>

\* Graphemes::next on the second Graphemes.
GraphemesNext2 ==
    /\ IF iter2 <= Len(input2)
       THEN LET start == byte_offset(input2, iter2)
                r == graphemes_loop(input2, iter2, "Start")
            IN  /\ iter2' = r.iter
                /\ ret2' = SomeStr(start, r.end)
                /\ yielded2' = Append(yielded2, [start |-> start, end |-> r.end])
       ELSE /\ ret2' = None
            /\ UNCHANGED <<iter2, yielded2>>
    /\ UNCHANGED input2
    /\ UNCHANGED <<segVars, catVars, machVars, tabVars, lineVars>>

InitPair ==
    /\ input \in SeqsUpTo(MaxLenPair)
    /\ iter = 1
    /\ ret = NoCall
    /\ yielded = <<>>
    /\ cursor = 1
    /\ cret = NoCall
    /\ owned = <<>>
    /\ fed = <<>>
    /\ cfed = <<>>
    /\ input2 \in {input} \cup OtherTexts
    /\ iter2 = 1
    /\ ret2 = NoCall
    /\ yielded2 = <<>>
    /\ IdleCat
    /\ IdleMach
    /\ IdleTab
    /\ IdleLines

NextPair == GraphemesNext \/ GraphemesNext2

SpecPair == InitPair /\ [][NextPair]_vars

(***************************************************************************)
(* Specification of the cursor alone: the caller calls next_cluster and,   *)
(* in between, Peekable::next on the same cursor.                          *)
(***************************************************************************)
\* Peekable<CharIndices>::next, called by the caller: one scalar value
\* consumed, nothing at the end of the text.
CursorNext ==
    /\ cursor <= Len(input)
    /\ cursor' = cursor + 1
    /\ UNCHANGED <<input, iter, ret, yielded, cret, owned, fed, cfed>>
    /\ UNCHANGED <<catVars, pairVars, machVars, tabVars, lineVars>>

NextCursor == NextCluster \/ CursorNext

SpecCursor == Init /\ [][NextCursor]_vars

(***************************************************************************)
(* Specification of the low-level interface, as low_level_interface_test   *)
(* uses it: one ClusterMachine, made once, is fed the scalar values of a   *)
(* text in order, each once.  A Graphemes over the same text is iterated   *)
(* first; the two share nothing, so the order between them is immaterial.  *)
(***************************************************************************)
Feed ==
    /\ iter > Len(input)
    /\ Len(breaks) < Len(input)
    /\ LET c == input[Len(breaks) + 1]
           r == find_cluster(mstate, c)
       IN  /\ mprev' = mstate
           /\ mchar' = c
           /\ mbrk' = r.brk
           /\ mstate' = r.state
           /\ mdropped' = r.dropped
           /\ breaks' = Append(breaks, r.brk)
    /\ UNCHANGED <<segVars, catVars, pairVars, tabVars, lineVars>>

NextStream == GraphemesNext \/ Feed

SpecStream == Init /\ [][NextStream]_vars

(***************************************************************************)
(* build.rs: the byte a General_Category label is stored as.               *)
(***************************************************************************)
cat_to_u8(cat) ==
    CASE cat = "Lu" -> 144
      [] cat = "Ll" -> 145
      [] cat = "Lt" -> 146
      [] cat = "Lm" -> 131
      [] cat = "Lo" -> 132
      [] cat = "Mn" -> 16
      [] cat = "Mc" -> 17
      [] cat = "Me" -> 18
      [] cat = "Nd" -> 32
      [] cat = "Nl" -> 33
      [] cat = "No" -> 34
      [] cat = "Pc" -> 48
      [] cat = "Pd" -> 49
      [] cat = "Ps" -> 50
      [] cat = "Pe" -> 51
      [] cat = "Pi" -> 52
      [] cat = "Pf" -> 53
      [] cat = "Po" -> 54
      [] cat = "Sm" -> 64
      [] cat = "Sc" -> 65
      [] cat = "Sk" -> 66
      [] cat = "So" -> 67
      [] cat = "Zs" -> 80
      [] cat = "Zl" -> 81
      [] cat = "Zp" -> 82
      [] cat = "Cc" -> 97
      [] cat = "Cf" -> 98
      [] cat = "Cs" -> 99
      [] cat = "Co" -> 100
      [] OTHER      -> 96

\* The 29 labels UnicodeData.txt uses, "Cn" (which it never writes), a label
\* that is no category, and "" for a scalar value the file has no line for.
CategoryLabels ==
    {"Lu", "Ll", "Lt", "Lm", "Lo", "Mn", "Mc", "Me", "Nd", "Nl", "No",
     "Pc", "Pd", "Ps", "Pe", "Pi", "Pf", "Po", "Sm", "Sc", "Sk", "So",
     "Zs", "Zl", "Zp", "Cc", "Cf", "Cs", "Co", "Cn", "Xx", ""}

\* raw_categories[c]: 0x60 until a line of the file sets it.
raw_categories(cat) == IF cat = "" THEN 96 ELSE cat_to_u8(cat)

(***************************************************************************)
(* categories.rs: Cat and the predicates, over the byte get_code returns.  *)
(***************************************************************************)
Cat_Lu == 144
Cat_Ll == 145
Cat_Lt == 146
Cat_LC == 144
Cat_Lm == 131
Cat_Lo == 132
Cat_L  == 128

\* Mutant: the letter class tested like the other classes, by its high nibble.
is_letter_nibble(cd) == BitAnd(cd, 240) = Cat_L

is_letter(cd) == BitAnd(cd, Cat_L) = Cat_L

is_cased_letter(cd) == BitAnd(cd, 240) = Cat_LC

is_uppercase_letter(cd) == cd = Cat_Lu

is_lowercase_letter(cd) == cd = Cat_Ll

is_titlecase_letter(cd) == cd = Cat_Lt

is_modifier_letter(cd) == cd = Cat_Lm

is_other_letter(cd) == cd = Cat_Lo

Cat_Mn == 16
Cat_Mc == 17
Cat_Me == 18
Cat_M  == 16
Cat_Nd == 32
Cat_Nl == 33
Cat_No == 34
Cat_N  == 32
Cat_Pc == 48
Cat_Pd == 49
Cat_Ps == 50
Cat_Pe == 51
Cat_Pi == 52
Cat_Pf == 53
Cat_Po == 54
Cat_P  == 48
Cat_Sm == 64
Cat_Sc == 65
Cat_Sk == 66
Cat_So == 67
Cat_S  == 64
Cat_Zs == 80
Cat_Zl == 81
Cat_Zp == 82
Cat_Z  == 80

\* Mutant: the class tested by equality with its constant, as a leaf is.
is_mark_exact(cd) == cd = Cat_M

is_mark(cd) == BitAnd(cd, 240) = Cat_M

is_nonspacing_mark(cd) == cd = Cat_Mn

is_spacing_mark(cd) == cd = Cat_Mc

is_enclosing_mark(cd) == cd = Cat_Me

is_number(cd) == BitAnd(cd, 240) = Cat_N

is_decimal_number(cd) == cd = Cat_Nd

is_letter_number(cd) == cd = Cat_Nl

is_other_number(cd) == cd = Cat_No

is_punctuation(cd) == BitAnd(cd, 240) = Cat_P

is_connector_punctuation(cd) == cd = Cat_Pc

is_dash_punctuation(cd) == cd = Cat_Pd

is_open_punctuation(cd) == cd = Cat_Ps

is_close_punctuation(cd) == cd = Cat_Pe

is_initial_punctuation(cd) == cd = Cat_Pi

is_final_punctuation(cd) == cd = Cat_Pf

is_other_punctuation(cd) == cd = Cat_Po

is_symbol(cd) == BitAnd(cd, 240) = Cat_S

is_math_symbol(cd) == cd = Cat_Sm

is_currency_symbol(cd) == cd = Cat_Sc

is_modifier_symbol(cd) == cd = Cat_Sk

is_other_symbol(cd) == cd = Cat_So

is_separator(cd) == BitAnd(cd, 240) = Cat_Z

is_space_separator(cd) == cd = Cat_Zs

is_line_separator(cd) == cd = Cat_Zl

is_paragraph_separator(cd) == cd = Cat_Zp

Cat_Cc == 1
Cat_Cf == 2
Cat_Co == 4
Cat_Cn == 0
Cat_C  == 0

is_other(cd) == BitAnd(cd, 240) = Cat_C

is_control(cd) == cd = Cat_Cc

is_format(cd) == cd = Cat_Cf

is_private_use(cd) == cd = Cat_Co

is_unassigned(cd) == cd = Cat_Cn

Call(p, r) ==
    /\ pred' = p
    /\ answer' = r
    /\ UNCHANGED <<label, code>>
    /\ UNCHANGED <<segVars, pairVars, machVars, tabVars, lineVars>>

IsLetter == Call("is_letter", is_letter(code))

IsCasedLetter == Call("is_cased_letter", is_cased_letter(code))

IsUppercaseLetter == Call("is_uppercase_letter", is_uppercase_letter(code))

IsLowercaseLetter == Call("is_lowercase_letter", is_lowercase_letter(code))

IsTitlecaseLetter == Call("is_titlecase_letter", is_titlecase_letter(code))

IsModifierLetter == Call("is_modifier_letter", is_modifier_letter(code))

IsOtherLetter == Call("is_other_letter", is_other_letter(code))

IsMark == Call("is_mark", is_mark(code))

IsNonspacingMark == Call("is_nonspacing_mark", is_nonspacing_mark(code))

IsSpacingMark == Call("is_spacing_mark", is_spacing_mark(code))

IsEnclosingMark == Call("is_enclosing_mark", is_enclosing_mark(code))

IsNumber == Call("is_number", is_number(code))

IsDecimalNumber == Call("is_decimal_number", is_decimal_number(code))

IsLetterNumber == Call("is_letter_number", is_letter_number(code))

IsOtherNumber == Call("is_other_number", is_other_number(code))

IsPunctuation == Call("is_punctuation", is_punctuation(code))

IsConnectorPunctuation == Call("is_connector_punctuation", is_connector_punctuation(code))

IsDashPunctuation == Call("is_dash_punctuation", is_dash_punctuation(code))

IsOpenPunctuation == Call("is_open_punctuation", is_open_punctuation(code))

IsClosePunctuation == Call("is_close_punctuation", is_close_punctuation(code))

IsInitialPunctuation == Call("is_initial_punctuation", is_initial_punctuation(code))

IsFinalPunctuation == Call("is_final_punctuation", is_final_punctuation(code))

IsOtherPunctuation == Call("is_other_punctuation", is_other_punctuation(code))

IsSymbol == Call("is_symbol", is_symbol(code))

IsMathSymbol == Call("is_math_symbol", is_math_symbol(code))

IsCurrencySymbol == Call("is_currency_symbol", is_currency_symbol(code))

IsModifierSymbol == Call("is_modifier_symbol", is_modifier_symbol(code))

IsOtherSymbol == Call("is_other_symbol", is_other_symbol(code))

IsSeparator == Call("is_separator", is_separator(code))

IsSpaceSeparator == Call("is_space_separator", is_space_separator(code))

IsLineSeparator == Call("is_line_separator", is_line_separator(code))

IsParagraphSeparator == Call("is_paragraph_separator", is_paragraph_separator(code))

IsOther == Call("is_other", is_other(code))

IsControl == Call("is_control", is_control(code))

IsFormat == Call("is_format", is_format(code))

IsPrivateUse == Call("is_private_use", is_private_use(code))

IsUnassigned == Call("is_unassigned", is_unassigned(code))

(***************************************************************************)
(* Specification of the classifier: a scalar value whose UnicodeData.txt    *)
(* category is label, its table byte, and any calls of the predicates.     *)
(***************************************************************************)
InitCat ==
    /\ label \in CategoryLabels
    /\ code = raw_categories(label)
    /\ pred = "NoCall"
    /\ answer = FALSE
    /\ IdleSeg
    /\ IdlePair
    /\ IdleMach
    /\ IdleTab
    /\ IdleLines

NextCat ==
    \/ IsLetter
    \/ IsCasedLetter
    \/ IsUppercaseLetter
    \/ IsLowercaseLetter
    \/ IsTitlecaseLetter
    \/ IsModifierLetter
    \/ IsOtherLetter
    \/ IsMark
    \/ IsNonspacingMark
    \/ IsSpacingMark
    \/ IsEnclosingMark
    \/ IsNumber
    \/ IsDecimalNumber
    \/ IsLetterNumber
    \/ IsOtherNumber
    \/ IsPunctuation
    \/ IsConnectorPunctuation
    \/ IsDashPunctuation
    \/ IsOpenPunctuation
    \/ IsClosePunctuation
    \/ IsInitialPunctuation
    \/ IsFinalPunctuation
    \/ IsOtherPunctuation
    \/ IsSymbol
    \/ IsMathSymbol
    \/ IsCurrencySymbol
    \/ IsModifierSymbol
    \/ IsOtherSymbol
    \/ IsSeparator
    \/ IsSpaceSeparator
    \/ IsLineSeparator
    \/ IsParagraphSeparator
    \/ IsOther
    \/ IsControl
    \/ IsFormat
    \/ IsPrivateUse
    \/ IsUnassigned

SpecCat == InitCat /\ [][NextCat]_vars

(***************************************************************************)
(* build.rs: the page loops of the table builders, run on a raw array of   *)
(* PageCount pages of PageLen bytes each (0x1100 pages of 0x100 bytes in   *)
(* the build).  raw is a sequence, so scalar value c is raw[c + 1] and     *)
(* page n of the emitted pages is pages[n + 1].                            *)
(***************************************************************************)
PageLen == 2
PageCount == 3

Scalars == 0 .. (PageLen * PageCount - 1)

\* The bytes a raw array is filled with.
RawBytes == {0, 4}

RawArrays == [1 .. PageLen * PageCount -> RawBytes]

\* raw[page_start .. page_start + 0x100]
page_data(raw_array, page) ==
    [i \in 1 .. PageLen |-> raw_array[page * PageLen + i]]

Code(single_code) == [tag |-> "Code", code |-> single_code]
Page(page_number) == [tag |-> "Page", page |-> page_number]

Emitted(tbl, pgs) == [table |-> tbl, pages |-> pgs]

\* Mutant: Page written after page_number was advanced.
RECURSIVE gp_page_loop_late(_, _, _, _, _)
gp_page_loop_late(raw_array, page, page_number, tbl, cat_pages) ==
    IF page >= PageCount THEN Emitted(tbl, cat_pages)
    ELSE LET data == page_data(raw_array, page)
             values_seen == {data[i] : i \in 1 .. PageLen}
         IN  IF Cardinality(values_seen) = 1
             THEN gp_page_loop_late(raw_array, page + 1, page_number,
                      Append(tbl, Code(CHOOSE v \in values_seen : TRUE)),
                      cat_pages)
             ELSE gp_page_loop_late(raw_array, page + 1, page_number + 1,
                      Append(tbl, Page(page_number + 1)),
                      Append(cat_pages, data))

\* Mutant: 0 removed from values_seen, so a page of zeros and one other value
\* is written as Code of that value.
RECURSIVE gp_page_loop_dominant(_, _, _, _, _)
gp_page_loop_dominant(raw_array, page, page_number, tbl, cat_pages) ==
    IF page >= PageCount THEN Emitted(tbl, cat_pages)
    ELSE LET data == page_data(raw_array, page)
             values_seen == {data[i] : i \in 1 .. PageLen} \ {0}
         IN  IF Cardinality(values_seen) <= 1
             THEN gp_page_loop_dominant(raw_array, page + 1, page_number,
                      Append(tbl, Code(IF values_seen = {} THEN 0
                                       ELSE CHOOSE v \in values_seen : TRUE)),
                      cat_pages)
             ELSE gp_page_loop_dominant(raw_array, page + 1, page_number + 1,
                      Append(tbl, Page(page_number)),
                      Append(cat_pages, data))

\* build_grapheme_break_property, "for page in 0 .. 0x1100": Code when the
\* page holds one value, else Page(page_number) and the page pushed.
RECURSIVE gp_page_loop(_, _, _, _, _)
gp_page_loop(raw_array, page, page_number, tbl, cat_pages) ==
    IF page >= PageCount THEN Emitted(tbl, cat_pages)
    ELSE LET data == page_data(raw_array, page)
             values_seen == {data[i] : i \in 1 .. PageLen}
         IN  IF Cardinality(values_seen) = 1
             THEN gp_page_loop(raw_array, page + 1, page_number,
                      Append(tbl, Code(CHOOSE v \in values_seen : TRUE)),
                      cat_pages)
             ELSE gp_page_loop(raw_array, page + 1, page_number + 1,
                      Append(tbl, Page(page_number)),
                      Append(cat_pages, data))

build_grapheme_break_property(raw_array) ==
    gp_page_loop(raw_array, 0, 0, <<>>, <<>>)

\* Either::get_code on the emitted arrays; indexing past an array panics.
get_code(tbl, pgs, top, index) ==
    IF top >= Len(tbl) THEN "panic"
    ELSE LET either == tbl[top + 1] IN
         IF either.tag = "Code" THEN either.code
         ELSE IF either.page >= Len(pgs) THEN "panic"
         ELSE IF index >= Len(pgs[either.page + 1]) THEN "panic"
         ELSE pgs[either.page + 1][index + 1]

\* get_property on the emitted arrays: c >> 8 and c as u8, for pages of
\* PageLen bytes.
get_property_of(tbl, pgs, c) == get_code(tbl, pgs, c \div PageLen, c % PageLen)

Looked(c, byte) == [kind |-> "Some", c |-> c, byte |-> byte]

BuildGraphemeBreakProperty ==
    /\ table = <<>>
    /\ LET out == build_grapheme_break_property(raw)
       IN  /\ table' = out.table
           /\ pages' = out.pages
    /\ UNCHANGED <<raw, lookup>>
    /\ UNCHANGED <<segVars, catVars, pairVars, machVars, lineVars>>

GetProperty ==
    /\ table # <<>>
    /\ \E c \in Scalars : lookup' = Looked(c, get_property_of(table, pages, c))
    /\ UNCHANGED <<raw, table, pages>>
    /\ UNCHANGED <<segVars, catVars, pairVars, machVars, lineVars>>

(***************************************************************************)
(* Specification of the grapheme property table: any raw array, the        *)
(* build, then any lookups.                                                *)
(***************************************************************************)
InitGp ==
    /\ raw \in RawArrays
    /\ table = <<>>
    /\ pages = <<>>
    /\ lookup = NoCall
    /\ IdleSeg
    /\ IdleCat
    /\ IdlePair
    /\ IdleMach
    /\ IdleLines

NextGp == BuildGraphemeBreakProperty \/ GetProperty

SpecGp == InitGp /\ [][NextGp]_vars

(***************************************************************************)
(* build.rs, build_character_tables: every page goes through page_index,   *)
(* a map from page content to page number, and the top-level array holds   *)
(* the page number of every page.  categories.rs reads a top-level entry   *)
(* with Either::get_code, so the number written is the n of a Page(n).     *)
(***************************************************************************)
\* The bytes of the raw category array: 0x60, which it is initialised with
\* and which stays where UnicodeData.txt has no line, and that of Lo.
UNASSIGNED == 96

CatBytes == {UNASSIGNED, Cat_Lo}

CatArrays == [1 .. PageLen * PageCount -> CatBytes]

\* page_number is a u8.
U8 == 256

\* The loop's variables: the top-level array written so far, page_index,
\* and adds, the number of times "page_number += 1" was executed; the u8
\* page_number holds adds % U8.
Indexed(tbl, idx, adds) == [table |-> tbl, index |-> idx, adds |-> adds]

\* The body of "for page in 0 .. 0x1100": page_ref is the number page_index
\* holds for the page's content, which is page_number if the content is new.
page_index_step(raw_array, page, vs) ==
    LET data == page_data(raw_array, page)
        page_number == vs.adds % U8
        known == {e \in vs.index : e.data = data}
        page_ref == IF known = {} THEN page_number
                    ELSE (CHOOSE e \in known : TRUE).number
    IN  Indexed(Append(vs.table, Page(page_ref)),
                IF known = {} THEN vs.index \cup
                                   {[data |-> data, number |-> page_number]}
                ELSE vs.index,
                IF page_ref = page_number THEN vs.adds + 1 ELSE vs.adds)

\* "for page in from .. to", the range taken as its two halves in turn; the
\* first half has run (half.adds has a value) when the second starts.
RECURSIVE page_index_loop(_, _, _, _)
page_index_loop(raw_array, from, to, vs) ==
    IF from >= to THEN vs
    ELSE IF to = from + 1 THEN page_index_step(raw_array, from, vs)
    ELSE LET mid == (from + to) \div 2
             half == page_index_loop(raw_array, from, mid, vs)
         IN  IF half.adds >= 0
             THEN page_index_loop(raw_array, mid, to, half)
             ELSE half

page_index_of(raw_array) ==
    page_index_loop(raw_array, 0, Len(raw_array) \div PageLen,
                    Indexed(<<>>, {}, 0))

\* page_index sorted by page number, for the numbers from .. to - 1: the
\* pages array.  Entries of equal number keep the order the HashMap
\* iterates in, which is any order.
RECURSIVE sorted_by(_, _, _)
sorted_by(page_index, from, to) ==
    IF to = from + 1
    THEN LET same == {e \in page_index : e.number = from}
         IN  {[n \in DOMAIN order |-> order[n].data] :
                 order \in {o \in [1 .. Cardinality(same) -> same] :
                               \A e \in same : \E n \in DOMAIN o : o[n] = e}}
    ELSE LET mid == (from + to) \div 2
         IN  {a \o b : a \in sorted_by(page_index, from, mid),
                       b \in sorted_by(page_index, mid, to)}

SortedPages(page_index) == sorted_by(page_index, 0, U8)

\* The arrays a build with wrapping arithmetic emits.
build_character_tables(raw_array) ==
    LET out == page_index_of(raw_array)
    IN  {Emitted(out.table, pgs) : pgs \in SortedPages(out.index)}

write_data_tables(raw_data) ==
    LET out == page_index_of(raw_data)
    IN  {Emitted(out.table, pgs) : pgs \in SortedPages(out.index)}

\* Whether the build adds 1 to a page_number of 255: a panic in a build with
\* overflow checks (the default of a debug build), a wrap to 0 otherwise.
page_number_overflows(raw_array) ==
    page_index_of(raw_array).adds >= U8

BuildCharacterTables ==
    /\ table = <<>>
    /\ outcome = "Ok"
    /\ \E overflow_checks \in BOOLEAN :
          IF overflow_checks /\ page_number_overflows(raw)
          THEN /\ outcome' = "panic"
               /\ UNCHANGED <<table, pages>>
          ELSE /\ outcome' = "Ok"
               /\ \E out \in build_character_tables(raw) :
                      /\ table' = out.table
                      /\ pages' = out.pages
    /\ UNCHANGED <<raw, lookup>>
    /\ UNCHANGED <<file, line, range_start, categories, properties, mentioned>>
    /\ UNCHANGED <<segVars, catVars, pairVars, machVars>>

WriteDataTables ==
    /\ table = <<>>
    /\ outcome = "Ok"
    /\ \E overflow_checks \in BOOLEAN :
          IF overflow_checks /\ page_number_overflows(raw)
          THEN /\ outcome' = "panic"
               /\ UNCHANGED <<table, pages>>
          ELSE /\ outcome' = "Ok"
               /\ \E out \in write_data_tables(raw) :
                      /\ table' = out.table
                      /\ pages' = out.pages
    /\ UNCHANGED <<raw, lookup>>
    /\ UNCHANGED <<file, line, range_start, categories, properties, mentioned>>
    /\ UNCHANGED <<segVars, catVars, pairVars, machVars>>

\* categories.rs, get_code(c): CAT_TABLE[c >> 8].get_code(c as u8)
GetCode ==
    /\ table # <<>>
    /\ \E c \in 0 .. (Len(raw) - 1) :
          lookup' = Looked(c, get_property_of(table, pages, c))
    /\ UNCHANGED <<raw, table, pages>>
    /\ UNCHANGED <<segVars, catVars, pairVars, machVars, lineVars>>

(***************************************************************************)
(* Specification of the category table: any raw array, the build by        *)
(* build.rs or by generate-sources, then any lookups.                      *)
(***************************************************************************)
InitCatTable ==
    /\ raw \in CatArrays
    /\ table = <<>>
    /\ pages = <<>>
    /\ lookup = NoCall
    /\ IdleSeg
    /\ IdleCat
    /\ IdlePair
    /\ IdleMach
    /\ IdleLines

NextCatTable == BuildCharacterTables \/ WriteDataTables \/ GetCode

SpecCatTable == InitCatTable /\ [][NextCatTable]_vars

(***************************************************************************)
(* Specification of the category table over raw arrays of many pages: 255, *)
(* 256 or 257 pages of pairwise different content, and a last page equal   *)
(* to the first.                                                           *)
(***************************************************************************)
\* The content of the p-th of the different pages: p as two bytes.
WidePage(p) ==
    [i \in 1 .. PageLen |->
        IF i = 1 THEN p % U8 ELSE IF i = 2 THEN p \div U8 ELSE 0]

WideArray(n) ==
    [k \in 1 .. (n + 1) * PageLen |->
        LET page == (k - 1) \div PageLen
        IN  WidePage(IF page = n THEN 0 ELSE page)[((k - 1) % PageLen) + 1]]

WideArrays == {WideArray(n) : n \in {U8 - 1, U8, U8 + 1}}

InitWide ==
    /\ raw \in WideArrays
    /\ table = <<>>
    /\ pages = <<>>
    /\ lookup = NoCall
    /\ IdleSeg
    /\ IdleCat
    /\ IdlePair
    /\ IdleMach
    /\ IdleLines

SpecWide == InitWide /\ [][NextCatTable]_vars

(***************************************************************************)
(* build.rs, the first pass of both builders: the raw arrays are filled    *)
(* line by line from UnicodeData.txt, GraphemeBreakProperty.txt and        *)
(* emoji-data.txt, which main reads in this order.                         *)
(***************************************************************************)
\* The last char code of the raw arrays of the model (0x10ffff in the code).
MaxChar == 1

LineChars == 0 .. MaxChar

\* A char code a line can hold that lies past the end of the raw arrays.
OutOfRange == MaxChar + 1

\* Category fields: two labels cat_to_u8 knows, "Cn" and a misspelt one.
LineLabels == {"Lo", "Mn", "Cn", "Xx"}

\* Property fields of GraphemeBreakProperty.txt and of emoji-data.txt.
LineProperties == {"Extend", "LV", "Xx"}

EmojiProperties == {"Extended_Pictographic", "Emoji"}

\* A line of UnicodeData.txt: a plain line, the First or the Last line of a
\* range, a line whose char code is no hexadecimal number, and a line with
\* fewer than three fields.
UnicodeDataLines ==
    [form : {"plain", "first", "last"}, code : 0 .. OutOfRange,
     cat : LineLabels]
    \cup [form : {"badhex", "short"}, code : {0}, cat : LineLabels]

\* A line of the two other files: "first..last ; property # ...", a line
\* with no '#' or no ';', and a line whose range is no hexadecimal number.
RangeLines(names) ==
    {ln \in [form : {"range"}, first : LineChars, last : 0 .. OutOfRange,
             property : names] : ln.first <= ln.last}
    \cup [form : {"comment", "badhex"}, first : {0}, last : {0},
          property : names]

Built(arr, start, out) == [arr |-> arr, start |-> start, out |-> out]

\* The body of the loop over the lines of UnicodeData.txt.
unicode_data_line(arr, start, ln) ==
    IF ln.form = "short" THEN Built(arr, start, "panic")
    ELSE IF ln.form = "badhex" THEN Built(arr, start, "Err")
    ELSE IF ln.form = "first" THEN Built(arr, ln.code, "Ok")
    ELSE IF ln.form = "last"
    THEN Built([i \in DOMAIN arr |->
                   IF start <= i /\ i <= ln.code THEN cat_to_u8(ln.cat)
                   ELSE arr[i]],
               start,
               IF start <= ln.code /\ ln.code \notin DOMAIN arr
               THEN "panic" ELSE "Ok")
    ELSE IF ln.code \in DOMAIN arr
    THEN Built([arr EXCEPT ![ln.code] = cat_to_u8(ln.cat)], start, "Ok")
    ELSE Built(arr, start, "panic")

\* raw.get_mut(str_to_range(range)).unwrap().fill(value)
fill(arr, ln, value) ==
    IF ln.form = "badhex" \/ ln.last \notin DOMAIN arr
    THEN Built(arr, 0, "panic")
    ELSE Built([i \in DOMAIN arr |->
                   IF ln.first <= i /\ i <= ln.last THEN value ELSE arr[i]],
               0, "Ok")

\* Mutant: a line with a property name the builder does not know is skipped.
grapheme_break_property_line_skip(arr, ln) ==
    IF ln.form = "comment" \/ encode_property(ln.property) = 0
    THEN Built(arr, 0, "Ok")
    ELSE fill(arr, ln, encode_property(ln.property))

\* The body of the loop over the lines of GraphemeBreakProperty.txt.
grapheme_break_property_line(arr, ln) ==
    IF ln.form = "comment" THEN Built(arr, 0, "Ok")
    ELSE fill(arr, ln, encode_property(ln.property))

\* The body of the loop over the lines of emoji-data.txt.
emoji_data_line(arr, ln) ==
    IF ln.form = "comment" \/ ln.property # "Extended_Pictographic"
    THEN Built(arr, 0, "Ok")
    ELSE fill(arr, ln, EXTENDED_GRAPHEME)

\* Whether a line of UnicodeData.txt names c, alone or in the range it ends.
NamesChar(ln, start, c) ==
    \/ ln.form = "plain" /\ ln.code = c
    \/ ln.form = "last" /\ start <= c /\ c <= ln.code

\* Whether a line of the two other files names c.
InRange(ln, c) == ln.form = "range" /\ ln.first <= c /\ c <= ln.last

\* raw_categories is a local of build_character_tables and
\* raw_grapheme_properties one of build_grapheme_break_property, which main
\* calls after the former has returned: the first line read of the second
\* builder's files finds the one array gone and the other newly allocated.
NoArray == <<>>

Unmentioned == [c \in LineChars |-> [cat |-> "", gp |-> "", emoji |-> ""]]

raw_grapheme_properties_now ==
    IF file = "UnicodeData.txt" THEN [c \in LineChars |-> 0] ELSE properties

mentioned_now == IF file = "UnicodeData.txt" THEN Unmentioned ELSE mentioned

UnicodeDataLine ==
    /\ outcome = "Ok"
    /\ file = "UnicodeData.txt"
    /\ \E ln \in UnicodeDataLines :
          LET built == unicode_data_line(categories, range_start, ln)
          IN  /\ line' = ln
              /\ categories' = built.arr
              /\ range_start' = built.start
              /\ outcome' = built.out
              /\ mentioned' =
                     [c \in LineChars |->
                         IF NamesChar(ln, range_start, c)
                         THEN [mentioned[c] EXCEPT !.cat = ln.cat]
                         ELSE mentioned[c]]
    /\ UNCHANGED <<file, properties>>
    /\ UNCHANGED <<segVars, catVars, pairVars, machVars, tabVars>>

GraphemeBreakPropertyLine ==
    /\ outcome = "Ok"
    /\ file \in {"UnicodeData.txt", "GraphemeBreakProperty.txt"}
    /\ file' = "GraphemeBreakProperty.txt"
    /\ \E ln \in RangeLines(LineProperties) :
          LET built ==
                  grapheme_break_property_line(raw_grapheme_properties_now, ln)
          IN  /\ line' = ln
              /\ properties' = built.arr
              /\ outcome' = built.out
              /\ mentioned' =
                     [c \in LineChars |->
                         IF InRange(ln, c)
                         THEN [mentioned_now[c] EXCEPT !.gp = ln.property]
                         ELSE mentioned_now[c]]
    /\ range_start' = 0
    /\ categories' = NoArray
    /\ UNCHANGED <<segVars, catVars, pairVars, machVars, tabVars>>

EmojiDataLine ==
    /\ outcome = "Ok"
    /\ file' = "emoji-data.txt"
    /\ \E ln \in RangeLines(EmojiProperties) :
          LET built == emoji_data_line(raw_grapheme_properties_now, ln)
          IN  /\ line' = ln
              /\ properties' = built.arr
              /\ outcome' = built.out
              /\ mentioned' =
                     [c \in LineChars |->
                         IF InRange(ln, c)
                            /\ ln.property = "Extended_Pictographic"
                         THEN [mentioned_now[c] EXCEPT !.emoji = ln.property]
                         ELSE mentioned_now[c]]
    /\ range_start' = 0
    /\ categories' = NoArray
    /\ UNCHANGED <<segVars, catVars, pairVars, machVars, tabVars>>

(***************************************************************************)
(* Specification of the first pass: the arrays as allocated, then the      *)
(* lines of the three files, until a line makes the build fail.            *)
(***************************************************************************)
InitLines ==
    /\ file = "UnicodeData.txt"
    /\ line = NoCall
    /\ range_start = 0
    /\ categories = [c \in LineChars |-> UNASSIGNED]
    /\ properties = NoArray
    /\ mentioned = Unmentioned
    /\ outcome = "Ok"
    /\ IdleSeg
    /\ IdleCat
    /\ IdlePair
    /\ IdleMach
    /\ IdleTab

NextLines == UnicodeDataLine \/ GraphemeBreakPropertyLine \/ EmojiDataLine

SpecLines == InitLines /\ [][NextLines]_vars

(***************************************************************************)
(* Vocabulary of the properties below.                                     *)
(***************************************************************************)
Off(i) == byte_offset(input, i)

Exhausted == iter > Len(input)

\* The scalar values of the k-th yielded cluster.
ClusterText(k) == slice(input, yielded[k].start, yielded[k].end)

\* The scalar values i..j lie in one yielded cluster.
InOneCluster(i, j) ==
    LET first == Off(i)
        last == Off(j + 1)
    IN  \E k \in 1..Len(yielded) : yielded[k].start <= first /\ last <= yielded[k].end

\* A yielded cluster ends, and the next begins, just before scalar value i.
BoundaryBefore(i) ==
    LET o == Off(i) IN \E k \in 1..Len(yielded) : yielded[k].end = o

\* A yielded cluster starts at scalar value i.
ClusterStartsAt(i) ==
    LET o == Off(i) IN \E k \in 1..Len(yielded) : yielded[k].start = o

\* The Grapheme_Cluster_Break class the Unicode data gives a scalar value.
GcbClasses ==
    [c \in Alphabet |->
        IF EmojiData(c) = "Extended_Pictographic" THEN "Extended_Pictographic"
        ELSE IF GraphemeBreakProperty(c) = "" THEN "Other"
        ELSE GraphemeBreakProperty(c)]

GcbClass(c) == GcbClasses[c]

IsControlClass(c) == GcbClass(c) \in {"CR", "LF", "Control"}

IsExtendingClass(c) == GcbClass(c) \in {"Extend", "SpacingMark", "ZWJ"}

IsHangulClass(c) == GcbClass(c) \in {"L", "V", "T", "LV", "LVT"}

RECURSIVE Concat(_)
Concat(ss) == IF ss = <<>> THEN <<>> ELSE Head(ss) \o Concat(Tail(ss))

(***************************************************************************)
(* C1: concatenating, in order, the clusters Graphemes yields reproduces   *)
(* the input: the first cluster starts at offset 0, each cluster starts    *)
(* where the previous one ended, the clusters yielded so far spell the      *)
(* scalar values consumed so far, and once the input is exhausted the last  *)
(* cluster ends at the end of the text.                                    *)
(***************************************************************************)
C1_RoundTrip ==
    LET spelled == Concat([k \in 1..Len(yielded) |-> ClusterText(k)]) IN
    /\ \A k \in 1..Len(yielded) :
          /\ yielded[k].start = (IF k = 1 THEN 0 ELSE yielded[k - 1].end)
          /\ yielded[k].start <= yielded[k].end
    /\ spelled = SubSeq(input, 1, iter - 1)
    /\ (Exhausted /\ input # <<>>) =>
          /\ yielded # <<>>
          /\ yielded[Len(yielded)].end = byte_len(input)
          /\ spelled = input

\* A three-scalar text of multi-byte scalar values, iterated to its end in
\* two clusters.
C1_Witness ==
    /\ Exhausted
    /\ Len(input) = 3
    /\ Len(yielded) = 2
    /\ byte_len(input) > 3
    /\ \E k \in 1..2 : Len(ClusterText(k)) = 2

(***************************************************************************)
(* C2: the clusters next_cluster returns from a Peekable<CharIndices>      *)
(* over a text are those Graphemes yields over it: the k-th owned String   *)
(* holds the scalar values of the k-th yielded slice, and when both are    *)
(* exhausted they have returned the same number of clusters.               *)
(***************************************************************************)
C2_SameClusters ==
    /\ \A k \in 1..Len(owned) :
          k <= Len(yielded) => owned[k] = ClusterText(k)
    /\ (Exhausted /\ cursor > Len(input)) => Len(owned) = Len(yielded)
    /\ (Len(owned) = Len(yielded)) => cursor = iter

C2_Witness ==
    /\ Exhausted
    /\ cursor > Len(input)
    /\ ret = None
    /\ cret = None
    /\ Len(owned) = 2
    /\ Len(input) = 3
    /\ \E k \in 1..2 : Len(owned[k]) = 2

(***************************************************************************)
(* C3: no cluster boundary separates a '\r' from a '\n' that immediately   *)
(* follows it, whatever precedes the '\r': once consumed, both lie in one  *)
(* yielded cluster.                                                        *)
(***************************************************************************)
C3_CrLfNeverSplit ==
    \A i \in 1..Len(input) - 1 :
        (input[i] = CR /\ input[i + 1] = LF) =>
            /\ ~BoundaryBefore(i + 1)
            /\ ~ClusterStartsAt(i + 1)
            /\ (iter > i => InOneCluster(i, i + 1))

\* "e\r\n" iterated to its end: "e", then "\r\n".
C3_Witness ==
    /\ Len(input) = 3
    /\ ~IsControlClass(input[1])
    /\ input[2] = CR
    /\ input[3] = LF
    /\ Exhausted
    /\ Len(yielded) = 2
    /\ InOneCluster(2, 3)

(***************************************************************************)
(* C4: Hangul runs.                                                        *)
(***************************************************************************)
\* The scalar values i..j are a maximal run of Hangul-class scalar values.
MaximalHangulRun(i, j) ==
    /\ i <= j
    /\ \A x \in i..j : IsHangulClass(input[x])
    /\ (i > 1 => ~IsHangulClass(input[i - 1]))
    /\ (j < Len(input) => ~IsHangulClass(input[j + 1]))

AllL(i, j) == \A x \in i..j : GcbClass(input[x]) = "L"

\* i..j matches L* (V|LV) (T|LVT)* or L+.
MatchesSpecSyllable(i, j) ==
    \/ AllL(i, j)
    \/ \E m \in i..j :
          /\ AllL(i, m - 1)
          /\ GcbClass(input[m]) \in {"V", "LV"}
          /\ \A x \in m + 1..j : GcbClass(input[x]) \in {"T", "LVT"}

\* i..j matches L* (V|LV) T* or L+.
MatchesSyllable(i, j) ==
    \/ AllL(i, j)
    \/ \E m \in i..j :
          /\ AllL(i, m - 1)
          /\ GcbClass(input[m]) \in {"V", "LV"}
          /\ \A x \in m + 1..j : GcbClass(input[x]) = "T"

Unsplit(i, j) ==
    /\ \A x \in i + 1..j : ~BoundaryBefore(x)
    /\ (iter > j => InOneCluster(i, j))

\* C4 as stated: every maximal Hangul run matching L* (V|LV) (T|LVT)* or L+
\* is grouped into one cluster.
C4_SpecSyllableUnsplit ==
    \A i, j \in 1..Len(input) :
        (MaximalHangulRun(i, j) /\ MatchesSpecSyllable(i, j)) => Unsplit(i, j)

\* C4, amended: every maximal run of Hangul-class scalar values matching
\* L* (V|LV) T* or L+ is grouped into one cluster: no boundary falls inside
\* the run.
C4_SyllableUnsplit ==
    \A i, j \in 1..Len(input) :
        (MaximalHangulRun(i, j) /\ MatchesSyllable(i, j)) => Unsplit(i, j)

\* L V T, iterated to its end as one cluster.
C4_Witness ==
    /\ Len(input) = 3
    /\ GcbClass(input[1]) = "L"
    /\ GcbClass(input[2]) \in {"V", "LV"}
    /\ GcbClass(input[3]) = "T"
    /\ Exhausted
    /\ Len(yielded) = 1

(***************************************************************************)
(* C5: a run of exactly two Regional_Indicator scalar values, starting at  *)
(* a cluster start and neither preceded nor followed by another            *)
(* Regional_Indicator, is yielded as one cluster containing both.          *)
(***************************************************************************)
IsRI(i) == i \in 1..Len(input) /\ GcbClass(input[i]) = "Regional_Indicator"

C5_FlagPair ==
    \A i \in 1..Len(input) - 1 :
        (IsRI(i) /\ IsRI(i + 1) /\ ~IsRI(i - 1) /\ ~IsRI(i + 2) /\ ClusterStartsAt(i)) =>
            /\ ~BoundaryBefore(i + 1)
            /\ InOneCluster(i, i + 1)

\* 'e', then the flag.
C5_Witness ==
    /\ Len(input) = 3
    /\ ~IsRI(1)
    /\ IsRI(2)
    /\ IsRI(3)
    /\ Exhausted
    /\ ClusterStartsAt(2)
    /\ Len(yielded) = 2

(***************************************************************************)
(* C6: emoji ZWJ sequences.                                                *)
(***************************************************************************)
IsEP(i) == GcbClass(input[i]) = "Extended_Pictographic"

\* i..j matches E (X* ZWJ E)*, E Extended_Pictographic and X Extend.
RECURSIVE EmojiSeq(_, _)
EmojiSeq(i, j) ==
    /\ i <= j
    /\ IsEP(j)
    /\ \/ i = j
       \/ /\ j - 2 >= i
          /\ GcbClass(input[j - 1]) = "ZWJ"
          /\ \E e \in i..j - 2 :
                /\ EmojiSeq(i, e)
                /\ \A x \in e + 1..j - 2 : GcbClass(input[x]) = "Extend"

\* z is a ZWJ that follows the emoji sequence i..j and Extend only.
ZwjAfterEmoji(i, j, z) ==
    /\ EmojiSeq(i, j)
    /\ j < z
    /\ z <= Len(input)
    /\ GcbClass(input[z]) = "ZWJ"
    /\ \A x \in j + 1..z - 1 : GcbClass(input[x]) = "Extend"

C7_ControlAlone ==
    \A k \in 1..Len(yielded) :
        LET text == ClusterText(k) IN
        (\E x \in 1..Len(text) : IsControlClass(text[x])) =>
            (Len(text) = 1 \/ text = <<CR, LF>>)

\* "\r\n", then a lone control character.
C7_Witness ==
    /\ Len(yielded) = 2
    /\ ClusterText(1) = <<CR, LF>>
    /\ Len(ClusterText(2)) = 1
    /\ IsControlClass(ClusterText(2)[1])
    /\ Exhausted

(***************************************************************************)
(* C8: an Other-class base followed by a maximal run of Extend,            *)
(* SpacingMark or ZWJ scalar values is yielded as one cluster: the cluster *)
(* holding the base ends exactly where the run ends, so the next cluster   *)
(* starts at the first scalar value after the run, and it starts at the    *)
(* base unless a Prepend precedes the base.                                *)
(***************************************************************************)
\* j is the last scalar value of the maximal extending run after base i.
RunEnd(i, j) ==
    /\ i <= j
    /\ j <= Len(input)
    /\ \A x \in i + 1..j : IsExtendingClass(input[x])
    /\ (j < Len(input) => ~IsExtendingClass(input[j + 1]))

C9_GraphemesStep ==
    (<<iter, ret, yielded>>' # <<iter, ret, yielded>>) =>
        IF iter <= Len(input)
        THEN /\ iter' > iter
             /\ ret'.kind = "Some"
             /\ ret'.end > ret'.start
             /\ yielded' = Append(yielded, [start |-> ret'.start, end |-> ret'.end])
             /\ (iter' > Len(input) => ret'.end = byte_len(input))
        ELSE /\ ret' = None
             /\ iter' = iter
             /\ yielded' = yielded

C9_CursorStep ==
    (<<cursor, cret, owned>>' # <<cursor, cret, owned>>) =>
        IF cursor <= Len(input)
        THEN /\ cursor' > cursor
             /\ cret'.kind = "Some"
             /\ cret'.rv # <<>>
             /\ cret'.rv = SubSeq(input, cursor, cursor' - 1)
             /\ owned' = Append(owned, cret'.rv)
        ELSE /\ cret' = None
             /\ cursor' = cursor
             /\ owned' = owned

C9_Terminates == [][C9_GraphemesStep /\ C9_CursorStep]_vars

\* Both drivers have returned None after yielding a text that ends in an
\* unfinished cluster (its last scalar value is no control character).
C9_Witness ==
    /\ ret = None
    /\ cret = None
    /\ Len(input) = 3
    /\ ~IsControlClass(input[3])
    /\ Len(yielded) = 2
    /\ Len(owned) = 2
    /\ yielded[2].end = byte_len(input)

(***************************************************************************)
(* C10: is_letter holds exactly of the category codes of Lu, Ll, Lt, Lm,   *)
(* Lo (0x90, 0x91, 0x92, 0x83, 0x84) and is_cased_letter exactly of those  *)
(* of Lu, Ll, Lt, over every code the table builder writes.                *)
(***************************************************************************)
C10_LetterClasses ==
    /\ pred = "is_letter" =>
          /\ answer = (code \in {144, 145, 146, 131, 132})
          /\ answer = (label \in {"Lu", "Ll", "Lt", "Lm", "Lo"})
    /\ pred = "is_cased_letter" =>
          /\ answer = (code \in {144, 145, 146})
          /\ answer = (label \in {"Lu", "Ll", "Lt"})

\* is_letter called on a modifier letter (0x83), which is no cased letter.
C10_Witness ==
    /\ label = "Lm"
    /\ code = 131
    /\ pred = "is_letter"
    /\ answer = TRUE

(***************************************************************************)
(* C11: over the bytes the table builder writes (Cc 0x61, Cf 0x62,         *)
(* Co 0x64, Cn 0x60), is_control, is_format, is_private_use and            *)
(* is_unassigned answer true exactly of a scalar value whose category is   *)
(* Cc, Cf, Co, Cn.  A scalar value UnicodeData.txt has no line for, or     *)
(* whose label the builder does not know, is Cn.                           *)
(***************************************************************************)
C11_OtherLeaves ==
    /\ pred = "is_control" => answer = (label = "Cc")
    /\ pred = "is_format" => answer = (label = "Cf")
    /\ pred = "is_private_use" => answer = (label = "Co")
    /\ pred = "is_unassigned" => answer = (label \in {"Cn", "Xx", ""})

(***************************************************************************)
(* C12: is_other answers true exactly of the codes of the Other family     *)
(* (Cc 0x61, Cf 0x62, Cs 0x63, Co 0x64, Cn 0x60), that is, exactly when    *)
(* code & 0xf0 is the class nibble 0x60 the table builder writes.          *)
(***************************************************************************)
C12_OtherClass ==
    pred = "is_other" =>
        /\ answer = (code \in {97, 98, 99, 100, 96})
        /\ answer = (BitAnd(code, 240) = 96)

(***************************************************************************)
(* C13: over every code the table builder writes, is_mark, is_number,      *)
(* is_punctuation, is_symbol and is_separator answer true exactly of the   *)
(* codes of the leaf categories of their class (Mn Mc Me, Nd Nl No,        *)
(* Pc Pd Ps Pe Pi Pf Po, Sm Sc Sk So, Zs Zl Zp), and a leaf predicate      *)
(* answers true only of a code its class predicate holds of.               *)
(***************************************************************************)
CompositeIs(p, labels, codes) ==
    pred = p => /\ answer = (label \in labels)
                /\ answer = (code \in codes)

LeavesImply(leaves, composite) ==
    (pred \in leaves /\ answer) => composite

C13_CompositeClasses ==
    /\ CompositeIs("is_mark", {"Mn", "Mc", "Me"}, {16, 17, 18})
    /\ CompositeIs("is_number", {"Nd", "Nl", "No"}, {32, 33, 34})
    /\ CompositeIs("is_punctuation",
                   {"Pc", "Pd", "Ps", "Pe", "Pi", "Pf", "Po"},
                   {48, 49, 50, 51, 52, 53, 54})
    /\ CompositeIs("is_symbol", {"Sm", "Sc", "Sk", "So"}, {64, 65, 66, 67})
    /\ CompositeIs("is_separator", {"Zs", "Zl", "Zp"}, {80, 81, 82})
    /\ LeavesImply({"is_nonspacing_mark", "is_spacing_mark",
                    "is_enclosing_mark"}, is_mark(code))
    /\ LeavesImply({"is_decimal_number", "is_letter_number",
                    "is_other_number"}, is_number(code))
    /\ LeavesImply({"is_connector_punctuation", "is_dash_punctuation",
                    "is_open_punctuation", "is_close_punctuation",
                    "is_initial_punctuation", "is_final_punctuation",
                    "is_other_punctuation"}, is_punctuation(code))
    /\ LeavesImply({"is_math_symbol", "is_currency_symbol",
                    "is_modifier_symbol", "is_other_symbol"}, is_symbol(code))
    /\ LeavesImply({"is_space_separator", "is_line_separator",
                    "is_paragraph_separator"}, is_separator(code))

\* is_mark called on a spacing mark (0x11), whose code is not Cat::M itself.
C13_Witness ==
    /\ label = "Mc"
    /\ code = 17
    /\ pred = "is_mark"
    /\ answer = TRUE

(***************************************************************************)
(* C14: lookup is total and in bounds.  The top-level index c >> 8 of      *)
(* every scalar value up to 0x10FFFF is below 0x1100 and the low index is  *)
(* c & 0xFF; the emitted top-level array has an entry for every page,      *)
(* every Page(n) the builder wrote has n below the number of pages it      *)
(* emitted, every emitted page has an entry for every low index, and no    *)
(* lookup indexes out of range.                                            *)
(***************************************************************************)
RAW_LEN == 1114112
TABLE_LEN == 4352

RealIndexInRange ==
    /\ (RAW_LEN - 1) \div 256 < TABLE_LEN
    /\ \A c \in Alphabet \cup {0, RAW_LEN - 1} :
          /\ c \div 256 < TABLE_LEN
          /\ c % 256 = BitAnd(c, 255)

TopEntry(c) == table[(c \div PageLen) + 1]

C14_LookupInBounds ==
    /\ RealIndexInRange
    /\ table # <<>> =>
          /\ \A c \in Scalars : c \div PageLen < Len(table)
          /\ \A i \in 1 .. Len(table) :
                table[i].tag = "Page" => table[i].page \in 0 .. (Len(pages) - 1)
          /\ \A n \in 1 .. Len(pages) : Len(pages[n]) = PageLen
    /\ lookup # NoCall => lookup.byte \in RawBytes

\* A lookup through the last of two emitted pages.
C14_Witness ==
    /\ Len(pages) = 2
    /\ lookup # NoCall
    /\ TopEntry(lookup.c) = Page(1)
    /\ lookup.byte \in RawBytes

(***************************************************************************)
(* C15: for any raw property array, get_property on the table              *)
(* build_grapheme_break_property emits gives, for every scalar value, the  *)
(* raw array's value at it.                                                *)
(***************************************************************************)
C15_LookupExact ==
    /\ table # <<>> =>
          \A c \in Scalars : get_property_of(table, pages, c) = raw[c + 1]
    /\ lookup # NoCall => lookup.byte = raw[lookup.c + 1]

\* A table with a Code entry and a Page entry, and a nonzero byte read from
\* a page that also holds a zero.
C15_Witness ==
    /\ \E i \in 1 .. Len(table) : table[i].tag = "Code"
    /\ lookup # NoCall
    /\ TopEntry(lookup.c).tag = "Page"
    /\ lookup.byte = 4
    /\ raw[lookup.c + 1] = 4

(***************************************************************************)
(* C16: in an emitted table no two entries of the pages array are equal,   *)
(* and two top-level pages of equal content have the same top-level entry. *)
(***************************************************************************)
C16_PagesDeduplicated ==
    table # <<>> =>
        /\ \A m, n \in 1 .. Len(pages) : pages[m] = pages[n] => m = n
        /\ \A p, q \in 0 .. (PageCount - 1) :
              page_data(raw, p) = page_data(raw, q) => table[p + 1] = table[q + 1]

(***************************************************************************)
(* C17: in the category table, the lookup of an unassigned code point      *)
(* whose page's assigned code points all share one code returns that       *)
(* code, not the unassigned code.                                          *)
(***************************************************************************)
AssignedCodes(page) ==
    {raw[page * PageLen + i] : i \in 1 .. PageLen} \ {UNASSIGNED}

C17_GapsReportShared ==
    lookup # NoCall =>
        LET shared == AssignedCodes(lookup.c \div PageLen)
        IN  (raw[lookup.c + 1] = UNASSIGNED /\ Cardinality(shared) = 1)
                => lookup.byte \in shared

(***************************************************************************)
(* C18: whatever the caller consumed from the cursor and whatever earlier  *)
(* calls returned, a call of next_cluster returns the first cluster of     *)
(* the text that remains in the cursor, taken as a text of its own, and    *)
(* leaves the cursor at the first scalar value after that cluster.         *)
(***************************************************************************)
Remaining == SubSeq(input, cursor, Len(input))

\* The first cluster of a text: what a fresh Graphemes over it yields first.
FirstClusterOf(text) ==
    SubSeq(text, 1, graphemes_loop(text, 1, "Start").iter - 1)

C18_Step ==
    (<<cret, owned>>' # <<cret, owned>>) =>
        IF Remaining = <<>>
        THEN cret' = None /\ owned' = owned /\ cursor' = cursor
        ELSE LET first == FirstClusterOf(Remaining)
             IN  /\ cret' = SomeString(first)
                 /\ owned' = Append(owned, first)
                 /\ cursor' = cursor + Len(first)

C18_RemainingOnly == [][C18_Step]_vars

\* The caller consumed the '\r' of "\r\n", and the call that followed
\* returned "\n" and left the cursor at the third scalar value.
C18_Witness ==
    /\ Len(input) = 3
    /\ input[1] = CR
    /\ input[2] = LF
    /\ owned = << <<LF>> >>
    /\ cret = SomeString(<<LF>>)
    /\ cursor = 3

(***************************************************************************)
(* C19: two Graphemes whose calls of next are interleaved in any order     *)
(* each yield the clusters they yield when run alone: at every moment what *)
(* each has yielded is a prefix of its run alone, its iter stands where    *)
(* its own last slice ended, and once it has returned None it has yielded  *)
(* the whole run.  The property table is a constant of the model           *)
(* (GP_LOOKUP), which no step can change.                                  *)
(***************************************************************************)
\* The slices one Graphemes over text yields when nothing else runs.
RECURSIVE RunAlone(_, _, _)
RunAlone(text, i, acc) ==
    IF i > Len(text) THEN acc
    ELSE LET r == graphemes_loop(text, i, "Start")
         IN  RunAlone(text, r.iter,
                      Append(acc, [start |-> byte_offset(text, i), end |-> r.end]))

IsPrefix(s, t) == Len(s) <= Len(t) /\ s = SubSeq(t, 1, Len(s))

YieldsAsAlone(text, it, out, rv) ==
    LET alone == RunAlone(text, 1, <<>>)
    IN  /\ IsPrefix(out, alone)
        /\ it \in 1 .. (Len(text) + 1)
        /\ byte_offset(text, it) = (IF out = <<>> THEN 0 ELSE out[Len(out)].end)
        /\ rv = None => out = alone
        /\ rv.kind = "Some" => out # <<>> /\ rv = SomeStr(out[Len(out)].start,
                                                          out[Len(out)].end)

C19_Independent ==
    /\ YieldsAsAlone(input, iter, yielded, ret)
    /\ YieldsAsAlone(input2, iter2, yielded2, ret2)

\* Both Graphemes run over the same text "ee": the second has finished
\* after two clusters, the first has yielded one of them.
C19_Witness ==
    /\ input2 = input
    /\ Len(input) = 2
    /\ input[1] = 101
    /\ input[2] = 101
    /\ ret2 = None
    /\ Len(yielded2) = 2
    /\ Len(yielded) = 1
    /\ ret.kind = "Some"

(***************************************************************************)
(* C20: called on a machine in state Start, find_cluster (which hands the  *)
(* call to first_character) answers None and moves to CrLf for '\r';       *)
(* answers After and stays in Start for any other Control, CR or LF        *)
(* character; and otherwise answers None and moves by the property alone:  *)
(* Prepend to Precore, Extend and SpacingMark to CcsExtend, L to           *)
(* HangulSyllableL, V and LV to HangulSyllableV, T and LVT to              *)
(* HangulSyllableT, Extended_Pictographic to Emoji, Regional_Indicator to  *)
(* Flag, and anything else, ZWJ and Other among it, to Other.              *)
(***************************************************************************)
StartTarget(class) ==
    CASE class = "Prepend"                 -> "Precore"
      [] class \in {"Extend", "SpacingMark"} -> "CcsExtend"
      [] class = "L"                       -> "HangulSyllableL"
      [] class \in {"V", "LV"}             -> "HangulSyllableV"
      [] class \in {"T", "LVT"}            -> "HangulSyllableT"
      [] class = "Extended_Pictographic"   -> "Emoji"
      [] class = "Regional_Indicator"      -> "Flag"
      [] OTHER                             -> "Other"

C20_FirstCharacter ==
    (mprev = "Start" /\ mbrk # "NoCall") =>
        IF mchar = CR THEN mstate = "CrLf" /\ mbrk = "None"
        ELSE IF IsControlClass(mchar) THEN mstate = "Start" /\ mbrk = "After"
        ELSE mstate = StartTarget(GcbClass(mchar)) /\ mbrk = "None"

\* A ZWJ given to a machine in state Start: None, and state Other.
C20_Witness ==
    /\ mprev = "Start"
    /\ mchar = 8205
    /\ mbrk = "None"
    /\ mstate = "Other"

(***************************************************************************)
(* Vocabulary of the machine-level properties: the last call of            *)
(* find_cluster was made in state mprev with lookahead mchar, returned     *)
(* mbrk and left the machine in mstate.                                    *)
(***************************************************************************)
Called == mbrk # "NoCall"

CalledIn(states) == Called /\ mprev \in states

\* The state a fresh machine has after first_character on c, from the UCD
\* class of c.
FreshState(c) ==
    IF c = CR THEN "CrLf"
    ELSE IF IsControlClass(c) THEN "Start"
    ELSE StartTarget(GcbClass(c))

(***************************************************************************)
(* C21: in every state other than Start, a lookahead of property Control   *)
(* (CR, LF or Control) returns After only in state CrLf with '\n'; in      *)
(* every other case it returns Before and the state is reset to Start --   *)
(* as the claim has it, for every such lookahead; in the code, for every   *)
(* one but '\r', which leaves the machine in CrLf.                         *)
(***************************************************************************)
C21_SpecControlRule ==
    (Called /\ mprev # "Start" /\ IsControlClass(mchar)) =>
        IF mprev = "CrLf" /\ mchar = LF THEN mbrk = "After"
        ELSE mbrk = "Before" /\ mstate = "Start"

C21_ControlRule ==
    (Called /\ mprev # "Start" /\ IsControlClass(mchar)) =>
        IF mprev = "CrLf" /\ mchar = LF THEN mbrk = "After"
        ELSE /\ mbrk = "Before"
             /\ mstate = (IF mchar = CR THEN "CrLf" ELSE "Start")

\* A tab after a base character: Before, and the machine back in Start.
C21_Witness ==
    /\ mprev = "Other"
    /\ mchar = 9
    /\ mbrk = "Before"
    /\ mstate = "Start"

(***************************************************************************)
(* C22: on one reused machine, a '\r' fed in a state other than Start      *)
(* returns Before and leaves the machine in CrLf, and the call that        *)
(* follows it returns After for '\n' and Before for any other character.   *)
(***************************************************************************)
C22_Step ==
    (Called /\ mprev # "Start" /\ mchar = CR) =>
        /\ mbrk = "Before"
        /\ mstate = "CrLf"
        /\ mbrk' # "NoCall" =>
              /\ mprev' = "CrLf"
              /\ mbrk' = (IF mchar' = LF THEN "After" ELSE "Before")

C22_CrThenLf == [][C22_Step]_vars

\* The '\n' that followed a '\r': After, and the machine back in Start.
C22_Witness ==
    /\ mprev = "CrLf"
    /\ mchar = LF
    /\ mbrk = "After"
    /\ mstate = "Start"

(***************************************************************************)
(* The shape of the three Hangul rules: in state st, a lookahead that is   *)
(* neither Control nor Extend, SpacingMark or ZWJ returns None and moves   *)
(* to HangulSyllableL, V or T when its class is in toL, toV or toT, and    *)
(* otherwise is re-dispatched: Before, and the state of a fresh machine    *)
(* after first_character on it.                                            *)
(***************************************************************************)
HangulRule(st, toL, toV, toT) ==
    (CalledIn({st}) /\ ~IsControlClass(mchar) /\ ~IsExtendingClass(mchar)) =>
        LET class == GcbClass(mchar) IN
        CASE class \in toL -> mbrk = "None" /\ mstate = "HangulSyllableL"
          [] class \in toV -> mbrk = "None" /\ mstate = "HangulSyllableV"
          [] class \in toT -> mbrk = "None" /\ mstate = "HangulSyllableT"
          [] OTHER -> mbrk = "Before" /\ mstate = FreshState(mchar)

(***************************************************************************)
(* C23: in state HangulSyllableL, L returns None and stays, V and LV       *)
(* return None and move to HangulSyllableV, and T and LVT -- in the code,  *)
(* LVT alone -- return None and move to HangulSyllableT; every other       *)
(* lookahead that is no continuation and no Control is re-dispatched and   *)
(* returns Before.                                                         *)
(***************************************************************************)
C23_SpecHangulL == HangulRule("HangulSyllableL", {"L"}, {"V", "LV"}, {"T", "LVT"})

C23_HangulL == HangulRule("HangulSyllableL", {"L"}, {"V", "LV"}, {"LVT"})

\* A T after an L: a boundary, and the T starts its own cluster.
C23_Witness ==
    /\ mprev = "HangulSyllableL"
    /\ mchar = 4520
    /\ mbrk = "Before"
    /\ mstate = "HangulSyllableT"

(***************************************************************************)
(* C24: in state HangulSyllableV, V and LV -- in the code, V alone --      *)
(* return None and stay, and T and LVT -- in the code, T alone -- return   *)
(* None and move to HangulSyllableT; every other lookahead that is no      *)
(* continuation and no Control, L among them, is re-dispatched and         *)
(* returns Before.                                                         *)
(***************************************************************************)
C24_SpecHangulV == HangulRule("HangulSyllableV", {}, {"V", "LV"}, {"T", "LVT"})

C24_HangulV == HangulRule("HangulSyllableV", {}, {"V"}, {"T"})

\* An LV after a vowel: a boundary, and the LV starts its own syllable.
C24_Witness ==
    /\ mprev = "HangulSyllableV"
    /\ mchar = 44032
    /\ mbrk = "Before"
    /\ mstate = "HangulSyllableV"

(***************************************************************************)
(* C25: in state HangulSyllableT, T and LVT -- in the code, T alone --     *)
(* return None and stay; every other lookahead that is no continuation     *)
(* and no Control, L, V and LV among them, is re-dispatched and returns    *)
(* Before.                                                                 *)
(***************************************************************************)
C25_SpecHangulT == HangulRule("HangulSyllableT", {}, {}, {"T", "LVT"})

C25_HangulT == HangulRule("HangulSyllableT", {}, {}, {"T"})

\* An LVT after a trailing consonant: a boundary, and a new syllable.
C25_Witness ==
    /\ mprev = "HangulSyllableT"
    /\ mchar = 44033
    /\ mbrk = "Before"
    /\ mstate = "HangulSyllableT"

(***************************************************************************)
(* C26: in each of the states HangulSyllableL, HangulSyllableV and         *)
(* HangulSyllableT, a lookahead of class Extend, SpacingMark or ZWJ        *)
(* returns None and moves the machine to CcsExtend -- in the code, to      *)
(* CcsBase.                                                                *)
(***************************************************************************)
HangulStates == {"HangulSyllableL", "HangulSyllableV", "HangulSyllableT"}

HangulThenMark(target) ==
    (CalledIn(HangulStates) /\ IsExtendingClass(mchar)) =>
        mbrk = "None" /\ mstate = target

C26_SpecHangulMark == HangulThenMark("CcsExtend")

C26_HangulMark == HangulThenMark("CcsBase")

\* A ZWJ after a vowel: None, and the machine in CcsBase.
C26_Witness ==
    /\ mprev = "HangulSyllableV"
    /\ mchar = 8205
    /\ mbrk = "None"
    /\ mstate = "CcsBase"

(***************************************************************************)
(* C27: in state Flag, a Regional_Indicator lookahead returns None and     *)
(* moves to Other; Extend, SpacingMark and ZWJ return None and move to     *)
(* CcsExtend; any other lookahead that is not Control is re-dispatched     *)
(* and returns Before; and none of these leaves the machine in Start.      *)
(***************************************************************************)
C27_Flag ==
    (CalledIn({"Flag"}) /\ ~IsControlClass(mchar)) =>
        /\ mstate # "Start"
        /\ LET class == GcbClass(mchar) IN
           CASE class = "Regional_Indicator" ->
                    mbrk = "None" /\ mstate = "Other"
             [] class \in {"Extend", "SpacingMark", "ZWJ"} ->
                    mbrk = "None" /\ mstate = "CcsExtend"
             [] OTHER ->
                    mbrk = "Before" /\ mstate = FreshState(mchar)

\* A letter after one regional indicator: Before, and the machine in Other.
C27_Witness ==
    /\ mprev = "Flag"
    /\ mchar = 101
    /\ mbrk = "Before"
    /\ mstate = "Other"

(***************************************************************************)
(* C28: a run of three or more Regional_Indicator scalar values that       *)
(* starts a cluster is yielded as its first two in one cluster, followed   *)
(* -- as the claim has it -- by every remaining indicator in a cluster of  *)
(* its own; in the code, by the remaining indicators paired the same way,  *)
(* with a boundary inside the run exactly after every second indicator.    *)
(***************************************************************************)
\* i..j is a maximal run of Regional_Indicator of three or more that starts
\* a yielded cluster.
LongFlagRun(i, j) ==
    /\ j >= i + 2
    /\ \A k \in i .. j : IsRI(k)
    /\ ~IsRI(i - 1)
    /\ ~IsRI(j + 1)
    /\ ClusterStartsAt(i)

C29_Precore ==
    CalledIn({"Precore"}) =>
        IF IsControlClass(mchar) THEN mbrk = "Before"
        ELSE mbrk = "None" /\ mstate = FreshState(mchar)

\* A regional indicator after a Prepend: None, and the machine in Flag.
C29_Witness ==
    /\ mprev = "Precore"
    /\ mchar = 127462
    /\ mbrk = "None"
    /\ mstate = "Flag"

(***************************************************************************)
(* C30: when find_cluster returns Before from HangulSyllableL, V or T,     *)
(* Flag, Emoji, Other or CcsBase, the machine is left in the state a       *)
(* fresh machine has after first_character on the same lookahead; when it  *)
(* returns Before from CcsExtend, EmojiZWJ or CrLf the state is left       *)
(* unchanged -- as the claim has it, for every lookahead; in the code, for *)
(* every lookahead that is not Control.                                    *)
(***************************************************************************)
RedispatchStates ==
    {"HangulSyllableL", "HangulSyllableV", "HangulSyllableT", "Flag", "Emoji",
     "Other", "CcsBase"}

KeepStates == {"CcsExtend", "EmojiZWJ", "CrLf"}

C30_SpecRedispatch ==
    (Called /\ mbrk = "Before") =>
        /\ mprev \in RedispatchStates => mstate = FreshState(mchar)
        /\ mprev \in KeepStates => mstate = mprev

C30_Redispatch ==
    (Called /\ mbrk = "Before") =>
        /\ mprev \in RedispatchStates => mstate = FreshState(mchar)
        /\ (mprev \in KeepStates /\ ~IsControlClass(mchar)) => mstate = mprev

\* A letter after a mark that started a cluster: Before, and the machine
\* still in CcsExtend.
C30_Witness ==
    /\ mprev = "CcsExtend"
    /\ mchar = 101
    /\ mbrk = "Before"
    /\ mstate = "CcsExtend"

(***************************************************************************)
(* C31: in the first pass of the builders a category label that is not one *)
(* of the 29 recognised labels is stored as 0x60 and a grapheme-break      *)
(* property name that is not recognised as Other (0x00); a scalar value no *)
(* line has named keeps these values; and a line whose only fault is its   *)
(* label or property name raises no error.                                 *)
(***************************************************************************)
RecognisedLabels == CategoryLabels \ {"Cn", "Xx", ""}

RecognisedProperties ==
    {"Prepend", "CR", "LF", "Control", "Extend", "SpacingMark", "L", "V",
     "T", "LV", "LVT", "ZWJ", "Extended_Grapheme", "Regional_Indicator"}

\* A line whose fields other than the label or property name are in order.
WellFormed(ln) ==
    /\ ln.form \in {"plain", "first", "last", "range", "comment"}
    /\ ln.form \in {"plain", "last"} => ln.code \in LineChars
    /\ ln.form = "range" => ln.last \in LineChars

C31_UnrecognisedDefaults ==
    /\ Cardinality(RecognisedLabels) = 29
    /\ \A l \in CategoryLabels \ RecognisedLabels : cat_to_u8(l) = UNASSIGNED
    /\ (outcome = "Ok" /\ file = "UnicodeData.txt") =>
          \A c \in LineChars :
              mentioned[c].cat \notin RecognisedLabels
                  => categories[c] = UNASSIGNED
    /\ (outcome = "Ok" /\ file \in {"GraphemeBreakProperty.txt",
                                    "emoji-data.txt"}) =>
          \A c \in LineChars :
              (/\ mentioned[c].gp \notin RecognisedProperties
               /\ mentioned[c].emoji # "Extended_Pictographic")
                  => properties[c] = OTHER_PROPERTY
    /\ (line # NoCall /\ WellFormed(line)) => outcome = "Ok"

\* A line with a misspelt label was read for scalar value 0, whose entry is
\* 0x60, while scalar value 1 holds the byte of Lo.
C31_Witness ==
    /\ file = "UnicodeData.txt"
    /\ outcome = "Ok"
    /\ line = [form |-> "plain", code |-> 0, cat |-> "Xx"]
    /\ mentioned[0].cat = "Xx"
    /\ categories[0] = UNASSIGNED
    /\ categories[1] = Cat_Lo

(***************************************************************************)
(* C32: one ClusterMachine fed a whole text, every scalar value once and   *)
(* in order, reports a boundary (Before: before the scalar value fed,      *)
(* After: after it) at exactly the positions where Graphemes, which makes  *)
(* a new machine for every cluster, ends a cluster.                        *)
(***************************************************************************)
\* The machine has been fed the whole text and Graphemes has run to its end.
BothDone == iter > Len(input) /\ Len(breaks) = Len(input)

\* The fed machine reported a boundary just before scalar value k.
Reported(k) == breaks[k] = "Before" \/ breaks[k - 1] = "After"

C32_StreamAgrees ==
    BothDone => \A k \in 2 .. Len(input) : Reported(k) <=> BoundaryBefore(k)

(***************************************************************************)
(* C33: no cluster ends just before a scalar value with property Extend,   *)
(* SpacingMark or ZWJ, unless that value is the first of the text or the   *)
(* value before it has property Control (CR and LF included).              *)
(***************************************************************************)
C33_NoBreakBeforeExtending ==
    \A k \in 2 .. Len(input) :
        (IsExtendingClass(input[k]) /\ ~IsControlClass(input[k - 1]))
            => ~BoundaryBefore(k)

(***************************************************************************)
(* C34: where a ZWJ is followed by an Extended_Pictographic scalar value,  *)
(* the two are in one cluster only if the ZWJ follows, in the text, an     *)
(* Extended_Pictographic and then nothing but Extend; in every other       *)
(* context a cluster ends between the ZWJ and the Extended_Pictographic.   *)
(***************************************************************************)
\* Scalar value z follows an Extended_Pictographic and Extend only.
AfterEmojiAndExtend(z) ==
    \E e \in 1 .. z - 1 :
        /\ IsEP(e)
        /\ \A x \in e + 1 .. z - 1 : GcbClass(input[x]) = "Extend"

C34_ZwjJoinsOnlyAfterEmoji ==
    \A z \in 1 .. Len(input) - 1 :
        (/\ GcbClass(input[z]) = "ZWJ"
         /\ IsEP(z + 1)
         /\ ~AfterEmojiAndExtend(z)
         /\ iter > z)
            => BoundaryBefore(z + 1) /\ ~InOneCluster(z, z + 1)

(***************************************************************************)
(* C35: between two adjacent scalar values with Hangul properties no       *)
(* cluster ends when the pair is L then L, V, LV or LVT; LV or V then V or *)
(* T; LVT or T then T; and a cluster ends between them for every other     *)
(* pair, whatever came before the pair in the cluster.                     *)
(***************************************************************************)
\* UAX #29 GB6, GB7 and GB8.
HangulPairJoined(a, b) ==
    \/ a = "L" /\ b \in {"L", "V", "LV", "LVT"}
    \/ a \in {"LV", "V"} /\ b \in {"V", "T"}
    \/ a \in {"LVT", "T"} /\ b = "T"

C35_HangulPairs ==
    \A k \in 1 .. Len(input) - 1 :
        (IsHangulClass(input[k]) /\ IsHangulClass(input[k + 1])) =>
            IF HangulPairJoined(GcbClass(input[k]), GcbClass(input[k + 1]))
            THEN /\ ~BoundaryBefore(k + 1)
                 /\ iter > k => InOneCluster(k, k + 1)
            ELSE iter > k => BoundaryBefore(k + 1)

\* LVT and T in one cluster, then a V in its own, after a full iteration.
C35_Witness ==
    /\ input = <<44033, 4520, 4448>>
    /\ Exhausted
    /\ InOneCluster(1, 2)
    /\ BoundaryBefore(3)

(***************************************************************************)
(* C36: for every raw array, also one with 256 or more different pages,    *)
(* the builders' u8 page_number never overflows, neither as a panic nor as *)
(* a wrap, and every top-level entry of the emitted table names the entry  *)
(* of the pages array that equals the raw content of its page.             *)
(***************************************************************************)
\* The tables were emitted and no lookup has been made yet.
JustBuilt == table # <<>> /\ lookup = NoCall

C36_PageNumbersSound ==
    /\ outcome # "panic"
    /\ JustBuilt =>
          /\ ~page_number_overflows(raw)
          /\ \A page \in 0 .. (Len(table) - 1) :
                /\ table[page + 1].page < Len(pages)
                /\ pages[table[page + 1].page + 1] = page_data(raw, page)

(***************************************************************************)
(* C37: over a whole iteration of a text of n scalar values, by            *)
(* Graphemes::next or by next_cluster, no scalar value is passed to        *)
(* find_cluster more than twice, a scalar value passed twice is one before *)
(* which a cluster ended (first the lookahead answered Before, then the    *)
(* first character of the next cluster), and there are at most 2n calls.   *)
(***************************************************************************)
\* How often index i occurs in a sequence of indices.
Times(log, i) == Cardinality({n \in DOMAIN log : log[n] = i})

\* A log in which every index fed twice is fed twice in a row.
AtMostTwice(log) ==
    /\ Len(log) <= 2 * Len(input)
    /\ \A i \in 1 .. Len(input) : Times(log, i) <= 2
    /\ \A n \in DOMAIN log : log[n] \in 1 .. Len(input)
    /\ \A m, n \in DOMAIN log :
          (m < n /\ log[m] = log[n]) => n = m + 1

C37_SinglePass ==
    /\ AtMostTwice(fed)
    /\ AtMostTwice(cfed)
    /\ \A i \in 1 .. Len(input) : Times(fed, i) = 2 => BoundaryBefore(i)
    /\ (Exhausted /\ cursor > Len(input)) =>
          \A i \in 1 .. Len(input) : Times(fed, i) >= 1 /\ Times(cfed, i) >= 1

\* Three letters, iterated to the end by both: the second and the third
\* were each passed twice.
C37_Witness ==
    /\ input = <<101, 101, 101>>
    /\ Exhausted
    /\ cursor > Len(input)
    /\ fed = <<1, 2, 2, 3, 3>>
    /\ cfed = <<1, 2, 2, 3, 3>>

(***************************************************************************)
(* C38: whenever find_cluster, called in a state other than Start, calls   *)
(* first_character and drops its return value -- in the Precore arm and in *)
(* the re-dispatching arms only -- that call returned None, not After, and *)
(* left the machine in a state other than Start.                           *)
(***************************************************************************)
\* The last call of find_cluster made a call of first_character and dropped
\* what it returned.
DroppedCall == Called /\ mprev # "Start" /\ mdropped # "NoCall"

C38_DroppedIsNone ==
    /\ (Called /\ mprev = "Start") => mdropped = "NoCall"
    /\ DroppedCall =>
          /\ mdropped = "None"
          /\ mstate # "Start"
          /\ \/ mprev = "Precore" /\ mbrk = "None"
             \/ mprev \in RedispatchStates /\ mbrk = "Before"

\* A Hangul L after a letter: re-dispatched, the machine set up for a
\* syllable.
C38_Witness ==
    /\ mprev = "Other"
    /\ mchar = 4352
    /\ mbrk = "Before"
    /\ mdropped = "None"
    /\ mstate = "HangulSyllableL"

=============================================================================
